---- MODULE Spec2Model ----
(***************************************************************************)
(* A model of Encryptum: the encryption engine (encryption.py), the       *)
(* retrieval path and the batch pinning workflow (gui_app_blockchain.py). *)
(*                                                                         *)
(* Bytes, base64 text and tokens are sequences of numbers 0..255.  The    *)
(* primitives of the cryptography library are idealised: PBKDF2 and the   *)
(* HMAC tag are injective (no collisions), the block cipher is an         *)
(* invertible byte map, SHA-256 is an injective digest.  The framing that *)
(* the code relies on (PKCS7 padding, the token layout, the urlsafe       *)
(* base64 text form and its lenient decoder, the HMAC zero padding of the *)
(* password) is modelled as the library computes it, with field widths    *)
(* scaled down.                                                           *)
(***************************************************************************)
EXTENDS Integers, Sequences, FiniteSets, TLC

\* ------------------------------------------------------------------ bounds
\* longest plaintext the model encrypts
MaxLen == 2
\* cipher block width in bytes (16 for AES)
BlockSize == 2

PlainBytes == {1, 2}
\* "p", "q" and "p" followed by a NUL character
Passwords == {<<112>>, <<113>>, <<112, 0>>}
Salts == {1, 2}
IVs == {200}
Timestamps == {5}

Bytes == 0..255

\* the empty file and, of every length up to MaxLen, the files that differ in
\* their last byte
Plaintexts ==
    {<<>>} \cup {[i \in 1..n |-> IF i = n THEN b ELSE 1] : n \in 1..MaxLen, b \in PlainBytes}

RECURSIVE Zeros(_)
Zeros(n) == IF n <= 0 THEN <<>> ELSE <<0>> \o Zeros(n - 1)

\* ------------------------------------------------------- key derivation
\* HMAC pads a key shorter than its block with zero bytes, so trailing NUL
\* bytes of the password do not change the PBKDF2 output.
RECURSIVE HmacKey(_)
HmacKey(pw) ==
    IF Len(pw) > 0 /\ pw[Len(pw)] = 0 THEN HmacKey(SubSeq(pw, 1, Len(pw) - 1)) ELSE pw

\* kdf.derive(password.encode()): injective in (padded password, salt)
Pbkdf2(password, salt) == <<salt>> \o HmacKey(password)

\* generate_key_from_password with the salt given
generate_key_from_password(password, salt) == [key |-> Pbkdf2(password, salt), salt |-> salt]

\* the two halves of a Fernet key
SigningKey(key) == key

RECURSIVE SumBytes(_)
SumBytes(s) == IF s = <<>> THEN 0 ELSE (s[1] + SumBytes(Tail(s))) % 256

EncryptionKey(key) == (SumBytes(key) * 7 + 11) % 256

\* ------------------------------------------------------------- base64
B64Pad == 61

\* the urlsafe alphabet: value 0..63 -> character code
B64Char(v) ==
    IF v < 26 THEN 65 + v
    ELSE IF v < 52 THEN 97 + (v - 26)
    ELSE IF v < 62 THEN 48 + (v - 52)
    ELSE IF v = 62 THEN 45 ELSE 95

\* urlsafe_b64decode: '-' and '_' are translated to '+' and '/', which the
\* decoder accepts as well; 64 stands for a character outside the alphabet
B64Val(c) ==
    IF c >= 65 /\ c <= 90 THEN c - 65
    ELSE IF c >= 97 /\ c <= 122 THEN c - 71
    ELSE IF c >= 48 /\ c <= 57 THEN c + 4
    ELSE IF c = 45 \/ c = 43 THEN 62
    ELSE IF c = 95 \/ c = 47 THEN 63
    ELSE 64

RECURSIVE urlsafe_b64encode(_)
urlsafe_b64encode(b) ==
    IF Len(b) = 0 THEN <<>>
    ELSE IF Len(b) = 1 THEN
        <<B64Char(b[1] \div 4), B64Char((b[1] % 4) * 16), B64Pad, B64Pad>>
    ELSE IF Len(b) = 2 THEN
        <<B64Char(b[1] \div 4), B64Char((b[1] % 4) * 16 + b[2] \div 16),
          B64Char((b[2] % 16) * 4), B64Pad>>
    ELSE
        <<B64Char(b[1] \div 4), B64Char((b[1] % 4) * 16 + b[2] \div 16),
          B64Char((b[2] % 16) * 4 + b[3] \div 64), B64Char(b[3] % 64)>>
        \o urlsafe_b64encode(SubSeq(b, 4, Len(b)))

DecodeError == <<-1>>

\* binascii.a2b_base64 in its default (non-strict) mode: characters outside
\* the alphabet are skipped, a complete pad sequence ends the parse, and the
\* bits left over in the last character are dropped without a check.
RECURSIVE a2b_base64(_, _, _, _, _, _)
a2b_base64(s, i, quad, left, pads, out) ==
    IF i > Len(s) THEN (IF quad # 0 THEN DecodeError ELSE out)
    ELSE IF s[i] = B64Pad THEN
        IF quad >= 2 /\ quad + pads + 1 >= 4 THEN out
        ELSE a2b_base64(s, i + 1, quad, left, IF quad >= 2 THEN pads + 1 ELSE pads, out)
    ELSE IF B64Val(s[i]) = 64 THEN a2b_base64(s, i + 1, quad, left, pads, out)
    ELSE LET v == B64Val(s[i]) IN
        CASE quad = 0 -> a2b_base64(s, i + 1, 1, v, 0, out)
          [] quad = 1 -> a2b_base64(s, i + 1, 2, v % 16, 0, Append(out, left * 4 + v \div 16))
          [] quad = 2 -> a2b_base64(s, i + 1, 3, v % 4, 0, Append(out, left * 16 + v \div 4))
          [] OTHER    -> a2b_base64(s, i + 1, 0, 0, 0, Append(out, left * 64 + v))

urlsafe_b64decode(s) == a2b_base64(s, 1, 0, 0, 0, <<>>)

\* ------------------------------------------------------------- Fernet
Pkcs7Pad(data) ==
    LET n == BlockSize - (Len(data) % BlockSize)
    IN  data \o [k \in 1..n |-> n]

PadError == <<-2>>

Pkcs7Unpad(padded) ==
    IF Len(padded) = 0 \/ Len(padded) % BlockSize # 0 THEN PadError
    ELSE LET n == padded[Len(padded)] IN
        IF n < 1 \/ n > BlockSize THEN PadError
        ELSE IF \E k \in (Len(padded) - n + 1)..Len(padded) : padded[k] # n THEN PadError
        ELSE SubSeq(padded, 1, Len(padded) - n)

\* chained byte cipher standing for AES-128-CBC
RECURSIVE CbcEncrypt(_, _, _)
CbcEncrypt(k, prev, padded) ==
    IF padded = <<>> THEN <<>>
    ELSE LET c == (padded[1] + k + prev) % 256
         IN  <<c>> \o CbcEncrypt(k, c, Tail(padded))

RECURSIVE CbcDecrypt(_, _, _)
CbcDecrypt(k, prev, ct) ==
    IF ct = <<>> THEN <<>>
    ELSE <<(ct[1] + 512 - k - prev) % 256>> \o CbcDecrypt(k, ct[1], Tail(ct))

\* version byte, timestamp, IV
HeaderLen == 3
MaxPwLen == 2
MaxCtLen == BlockSize * (MaxLen \div BlockSize + 1)
\* width of the tag: the widest signed message with its key fits
MacLen == 2 + (1 + MaxPwLen) + HeaderLen + MaxCtLen

\* HMAC-SHA256 as an injective tag of (signing key, message)
Hmac(signing, msg) ==
    LET body == <<Len(signing)>> \o signing \o <<Len(msg)>> \o msg
    IN  body \o Zeros(MacLen - Len(body))

\* Fernet(key).encrypt(data) with the clock and os.urandom(16) as inputs
FernetEncrypt(key, data, ts, iv) ==
    LET ct    == CbcEncrypt(EncryptionKey(key), iv, Pkcs7Pad(data))
        basic == <<128, ts, iv>> \o ct
    IN  urlsafe_b64encode(basic \o Hmac(SigningKey(key), basic))

InvalidToken == <<-3>>

\* decryption that skips the HMAC comparison
FernetDecrypt_unauthenticated(key, token) ==
    LET data == urlsafe_b64decode(token) IN
    IF data = DecodeError THEN InvalidToken
    ELSE IF Len(data) = 0 \/ data[1] # 128 THEN InvalidToken
    ELSE IF Len(data) < HeaderLen + MacLen THEN InvalidToken
    ELSE LET basic  == SubSeq(data, 1, Len(data) - MacLen)
             padded == CbcDecrypt(EncryptionKey(key), basic[3],
                                  SubSeq(basic, HeaderLen + 1, Len(basic)))
             plain  == Pkcs7Unpad(padded)
         IN  IF plain = PadError THEN InvalidToken ELSE plain

\* Fernet(key).decrypt(token), no ttl
FernetDecrypt(key, token) ==
    LET data == urlsafe_b64decode(token) IN
    IF data = DecodeError THEN InvalidToken
    ELSE IF Len(data) = 0 \/ data[1] # 128 THEN InvalidToken
    ELSE IF Len(data) < HeaderLen + MacLen THEN InvalidToken
    ELSE LET basic == SubSeq(data, 1, Len(data) - MacLen)
             tag   == SubSeq(data, Len(data) - MacLen + 1, Len(data))
         IN  IF Hmac(SigningKey(key), basic) # tag THEN InvalidToken
             ELSE LET padded == CbcDecrypt(EncryptionKey(key), basic[3],
                                           SubSeq(basic, HeaderLen + 1, Len(basic)))
                      plain  == Pkcs7Unpad(padded)
                  IN  IF plain = PadError THEN InvalidToken ELSE plain

\* ------------------------------------------------------------ SHA-256
HexDigits == <<"0", "1", "2", "3", "4", "5", "6", "7", "8", "9", "a", "b", "c", "d", "e", "f">>

HexOf(b) == <<HexDigits[b \div 16 + 1], HexDigits[(b % 16) + 1]>>

RECURSIVE HexOfSeq(_)
HexOfSeq(s) == IF s = <<>> THEN <<>> ELSE HexOf(s[1]) \o HexOfSeq(Tail(s))

\* widest input the digest is taken of: a token
DigestBytes == 1 + 4 * ((HeaderLen + MaxCtLen + MacLen + 2) \div 3)

\* hashlib.sha256(data).hexdigest(): a fixed-width lowercase hex string,
\* injective in data
Sha256Hex(data) == HexOfSeq(<<Len(data)>> \o data \o Zeros(DigestBytes - 1 - Len(data)))

\* bytes.hex() of the one-byte salt, and bytes.fromhex of it
SaltHex(salt) == HexOf(salt)

HexError == -1

HexVal(ch) ==
    IF \E k \in 1..16 : HexDigits[k] = ch
    THEN (CHOOSE k \in 1..16 : HexDigits[k] = ch) - 1
    ELSE HexError

SaltFromHex(h) ==
    IF Len(h) # 2 \/ HexVal(h[1]) = HexError \/ HexVal(h[2]) = HexError THEN HexError
    ELSE HexVal(h[1]) * 16 + HexVal(h[2])

\* ------------------------------------------------- EncryptumCrypto
Failed == [ok |-> FALSE, data |-> <<>>]

\* encrypt_file after the file was read: the dict it returns, or the
\* "Encryption failed" exception
encrypt_file(exists, file_data, password, salt, ts, iv) ==
    IF ~exists THEN [ok |-> FALSE]
    ELSE IF Len(file_data) = 0 THEN [ok |-> FALSE]
    ELSE LET k == generate_key_from_password(password, salt)
             encrypted_data == FernetEncrypt(k.key, file_data, ts, iv)
         IN  [ok |-> TRUE,
              encrypted_data |-> encrypted_data,
              salt |-> k.salt,
              original_hash |-> Sha256Hex(file_data),
              original_size |-> Len(file_data),
              encrypted_size |-> Len(encrypted_data)]

\* decrypt_file deriving the key without the stored salt, as with salt=None
decrypt_file_fresh_salt(encrypted_data, password, salt) ==
    LET k == generate_key_from_password(password, CHOOSE fresh \in Salts : fresh # salt)
        decrypted_data == FernetDecrypt(k.key, encrypted_data)
    IN  IF decrypted_data = InvalidToken THEN Failed
        ELSE [ok |-> TRUE, data |-> decrypted_data]

\* decrypt_file: the decrypted bytes, or the "Decryption failed" exception
decrypt_file(encrypted_data, password, salt) ==
    LET k == generate_key_from_password(password, salt)
        decrypted_data == FernetDecrypt(k.key, encrypted_data)
    IN  IF decrypted_data = InvalidToken THEN Failed
        ELSE [ok |-> TRUE, data |-> decrypted_data]

\* comparison of the 16-character file id prefix instead of the whole digest
verify_file_integrity_prefix(decrypted_data, original_hash) ==
    SubSeq(Sha256Hex(decrypted_data), 1, 4) = SubSeq(original_hash, 1, 4)

verify_file_integrity(decrypted_data, original_hash) ==
    Sha256Hex(decrypted_data) = original_hash

\* one bit of one byte of a byte string flipped
FlipBit(s, i, b) ==
    [s EXCEPT ![i] = IF (@ \div (2 ^ b)) % 2 = 1 THEN @ - 2 ^ b ELSE @ + 2 ^ b]

SingleBitFlips(s) == {FlipBit(s, i, b) : i \in 1..Len(s), b \in 0..7}

\* ------------------------------------------------------------ retrieval
RetrievalFailed == <<-4>>
MetadataFailed == [salt |-> <<>>, original_hash |-> <<>>, failed |-> TRUE]

Metadata(salt, hash) == [salt |-> SaltHex(salt), original_hash |-> hash, failed |-> FALSE]

Absent == <<-5>>

\* download_file_thread writing the decrypted data before comparing hashes
download_file_thread_write_first(retrieved, metadata, password, write, before) ==
    IF retrieved = RetrievalFailed \/ metadata.failed
    THEN [status |-> "error", stage |-> "retrieve", dest |-> before]
    ELSE LET decrypted == decrypt_file(retrieved, password, SaltFromHex(metadata.salt)) IN
        IF ~decrypted.ok
        THEN [status |-> "error", stage |-> "decrypt", dest |-> before]
        ELSE IF verify_file_integrity(decrypted.data, metadata.original_hash)
        THEN [status |-> "ok", stage |-> "write", dest |-> decrypted.data]
        ELSE [status |-> "error", stage |-> "verify", dest |-> decrypted.data]

\* download_file_thread: what it leaves in the destination file and how it
\* ends.  retrieved and metadata are the replies of the content store,
\* write is how open() and write() on the destination go.
download_file_thread(retrieved, metadata, password, write, before) ==
    IF retrieved = RetrievalFailed \/ metadata.failed
    THEN [status |-> "error", stage |-> "retrieve", dest |-> before]
    ELSE IF SaltFromHex(metadata.salt) = HexError
    THEN [status |-> "error", stage |-> "decrypt", dest |-> before]
    ELSE LET decrypted == decrypt_file(retrieved, password, SaltFromHex(metadata.salt)) IN
        IF ~decrypted.ok
        THEN [status |-> "error", stage |-> "decrypt", dest |-> before]
        ELSE IF verify_file_integrity(decrypted.data, metadata.original_hash)
        THEN CASE write = "ok"         -> [status |-> "ok", stage |-> "write", dest |-> decrypted.data]
               [] write = "open_fails" -> [status |-> "error", stage |-> "write", dest |-> before]
               [] OTHER                -> [status |-> "error", stage |-> "write", dest |-> <<>>]
        ELSE [status |-> "error", stage |-> "verify", dest |-> before]

\* ------------------------------------------------------------------ state
VARIABLES
    enc,     \* the encrypt_file call: its arguments and what it returned
    dec,     \* the last decrypt_file call
    ver,     \* the last verify_file_integrity call
    dl,      \* the last download_file_thread run
    dest,    \* the content of each file a download may be saved to
    upload,  \* the upload_file_thread that runs or ran last
    ipfs     \* the content addresses the IPFS node holds

VARIABLES
    gas,             \* the last get_manual_gas_price call
    w3,              \* BlockchainPanel.w3
    account,         \* BlockchainPanel.account, with its private_key
    contract,        \* BlockchainPanel.contract
    connect_btn,     \* state of the connect button
    pin_btn,         \* state of the pin button
    gas_price_var,   \* text of the gas price entry
    duration_var,    \* the pin duration chosen, in days
    selected_files,  \* BlockchainPanel.selected_files
    dialog,          \* the modal dialog pin_files is waiting in, if any
    preflight,       \* what the last pin_files call found
    file_registry,   \* EncryptumGUI.file_registry
    registry_file,   \* the registry file on disk: its state and what it holds
    worker,          \* the pin_thread of each batch run
    runs,            \* batch runs started
    txs,             \* every transaction the node accepted, in order
    savers,          \* the save_registry call of each thread, if it is in one
    delete_op,       \* what the last delete_file call was given and did
    network_var      \* the network picked in the panel's combobox

uploadVars == <<upload, ipfs>>

cryptoVars == <<enc, dec, ver, dl, dest, uploadVars>>

panelVars == <<w3, account, contract, connect_btn, pin_btn, gas_price_var, duration_var,
               selected_files, dialog, preflight>>

registryVars == <<file_registry, registry_file>>

runVars == <<worker, runs, txs>>

persistVars == <<savers, delete_op>>

pinVars == <<gas, panelVars, registryVars, runVars, persistVars, network_var>>

vars == <<cryptoVars, pinVars>>

NoEnc == [status |-> "none", plain |-> <<>>, password |-> <<>>, result |-> [ok |-> FALSE]]
NoDec == [status |-> "none", encrypted_data |-> <<>>, password |-> <<>>, salt |-> 0, data |-> <<>>]
NoVer == [status |-> "none", data |-> <<>>, hash |-> <<>>, result |-> FALSE]
NoDl == [status |-> "none", stage |-> "none", retrieved |-> <<>>, metadata |-> MetadataFailed,
          password |-> <<>>, save_path |-> "new", before |-> Absent]

\* the save dialog offers a path that does not exist yet and an existing file
SavePaths == {"new", "existing"}

NoDlDest == [path \in SavePaths |-> IF path = "new" THEN Absent ELSE <<9>>]

\* uploads one behaviour starts
MaxUploads == 2

\* the empty dict
EmptyDict == [k \in {} |-> 0]

\* no upload thread yet; before is the registry the thread found
NoUpload == [pc |-> "idle", count |-> 0, exists |-> FALSE, file_data |-> <<>>, calls |-> <<>>,
             file_cid |-> <<>>, metadata_cid |-> <<>>, before |-> EmptyDict]

CryptoInit ==
    /\ enc = NoEnc
    /\ dec = NoDec
    /\ ver = NoVer
    /\ dl = NoDl
    /\ dest = NoDlDest
    /\ upload = NoUpload
    /\ ipfs = {}

\* One behaviour follows one encrypted file and one call on it: the calls are
\* pure, so the observations of different calls do not interact.
EncryptFile ==
    /\ enc.status = "none"
    /\ \E exists \in BOOLEAN, file_data \in Plaintexts, password \in Passwords,
          salt \in Salts, ts \in Timestamps, iv \in IVs :
        LET r == encrypt_file(exists, file_data, password, salt, ts, iv) IN
        enc' = [status |-> IF r.ok THEN "ok" ELSE "error", plain |-> file_data,
                password |-> password, result |-> r]
    /\ UNCHANGED <<dec, ver, dl, dest, uploadVars, pinVars>>

DecryptFile ==
    /\ enc.status = "ok" /\ dec.status = "none" /\ ver.status = "none" /\ dl.status = "none"
    /\ \E encrypted_data \in {enc.result.encrypted_data}
                               \cup SingleBitFlips(enc.result.encrypted_data),
          password \in Passwords, salt \in Salts :
        LET r == decrypt_file(encrypted_data, password, salt) IN
        dec' = [status |-> IF r.ok THEN "ok" ELSE "failed", encrypted_data |-> encrypted_data,
                password |-> password, salt |-> salt, data |-> r.data]
    /\ UNCHANGED <<enc, ver, dl, dest, uploadVars, pinVars>>

VerifyFileIntegrity ==
    /\ enc.status = "ok" /\ dec.status = "none" /\ ver.status = "none" /\ dl.status = "none"
    /\ \E data \in Plaintexts,
          hash \in {Sha256Hex(p) : p \in Plaintexts} \cup {enc.result.original_hash} :
        ver' = [status |-> "called", data |-> data, hash |-> hash,
                result |-> verify_file_integrity(data, hash)]
    /\ UNCHANGED <<enc, dec, dl, dest, uploadVars, pinVars>>

\* the last character of a token that carries data
LastDataChar(token) ==
    CHOOSE i \in 1..Len(token) : token[i] # B64Pad /\ \A j \in (i + 1)..Len(token) : token[j] = B64Pad

Retrievable(token) ==
    {RetrievalFailed, token}
    \cup {FlipBit(token, i, b) : i \in {1, LastDataChar(token)}, b \in 0..7}

DownloadFileThread ==
    /\ enc.status = "ok" /\ dec.status = "none" /\ ver.status = "none" /\ dl.status = "none"
    /\ \E retrieved \in Retrievable(enc.result.encrypted_data),
          metadata \in {MetadataFailed}
                       \cup {Metadata(s, h) : s \in Salts,
                                              h \in {enc.result.original_hash, Sha256Hex(<<9>>)}},
          password \in Passwords,
          save_path \in SavePaths,
          write \in {"ok", "open_fails", "write_fails"} :
        LET r == download_file_thread(retrieved, metadata, password, write, dest[save_path]) IN
        /\ dl' = [status |-> r.status, stage |-> r.stage, retrieved |-> retrieved,
                  metadata |-> metadata, password |-> password, save_path |-> save_path,
                  before |-> dest[save_path]]
        /\ dest' = [dest EXCEPT ![save_path] = r.dest]
    /\ UNCHANGED <<enc, dec, ver, uploadVars, pinVars>>

CryptoNext == EncryptFile \/ DecryptFile \/ VerifyFileIntegrity \/ DownloadFileThread


\* ====================================================== pinning workflow
\* ------------------------------------------------------- floating point
\* A binary floating-point number is <<m, e>>, the value m * 2^e, with
\* 2^(MantissaBits-1) <= m < 2^MantissaBits, or Zero.  Every operation rounds
\* to nearest, ties to even, as IEEE 754 does.  Python's float has a 53-bit
\* significand; the model keeps the rounding and narrows the significand so
\* that the numbers stay within TLC's 32-bit integers.
MantissaBits == 8

Zero == <<0, 0>>

MantHi == 2 ^ MantissaBits
MantLo == 2 ^ (MantissaBits - 1)

\* n / d (n >= 0, d > 0) times 2^e, rounded
RECURSIVE Round(_, _, _)
Round(n, d, e) ==
    IF n = 0 THEN Zero
    ELSE IF n >= d * MantHi THEN Round(n, 2 * d, e + 1)
    ELSE IF n < d * MantLo THEN Round(2 * n, d, e - 1)
    ELSE LET q  == n \div d
             r  == n % d
             up == 2 * r > d \/ (2 * r = d /\ q % 2 = 1)
             m  == IF up THEN q + 1 ELSE q
         IN  IF m = MantHi THEN <<MantLo, e + 1>> ELSE <<m, e>>

\* float(Decimal(n) / Decimal(d)): the conversion is correctly rounded
ToFloat(n, d) == Round(n, d, 0)

FloatMul(a, b) == Round(a[1] * b[1], 1, a[2] + b[2])

FloatAdd(a, b) ==
    IF a = Zero THEN b
    ELSE IF b = Zero THEN a
    ELSE LET hi == IF a[2] >= b[2] THEN a ELSE b
             lo == IF a[2] >= b[2] THEN b ELSE a
             k  == hi[2] - lo[2]
         IN  IF k > MantissaBits + 1 THEN hi
             ELSE Round(hi[1] * 2 ^ k + lo[1], 1, lo[2])

FloatLess(a, b) ==
    IF b = Zero THEN FALSE
    ELSE IF a = Zero THEN TRUE
    ELSE IF a[2] # b[2] THEN a[2] < b[2]
    ELSE a[1] < b[1]

\* int(x) of a non-negative float
FloatFloor(a) ==
    IF a = Zero THEN 0
    ELSE IF a[2] >= 0 THEN a[1] * 2 ^ a[2]
    ELSE IF -a[2] >= MantissaBits THEN 0
    ELSE a[1] \div 2 ^ (-a[2])

\* ---------------------------------------------------------- gas price
\* Amounts are integers of wei.  The unit sizes are scaled down so that the
\* products the code forms stay within TLC's 32-bit integers: to_wei(1,
\* 'gwei') is 10^9 and to_wei(1, 'ether') is 10^18 in the program.
WeiPerGwei == 10
WeiPerEther == 1000000

\* config.gas_price_buffer, the float nearest to 1.1
gas_price_buffer == ToFloat(11, 10)

\* config.min_gas_price_gwei
min_gas_price_gwei == 1

\* frames the interpreter allows before it raises RecursionError
RecursionLimit == 3

\* a text is a sequence of characters
Digits == <<"0", "1", "2", "3", "4", "5", "6", "7", "8", "9">>

IsDigit(ch) == \E k \in 1..10 : Digits[k] = ch

DigitVal(ch) == (CHOOSE k \in 1..10 : Digits[k] = ch) - 1

RECURSIVE strip(_)
strip(s) ==
    IF s = <<>> THEN s
    ELSE IF s[1] = " " THEN strip(Tail(s))
    ELSE IF s[Len(s)] = " " THEN strip(SubSeq(s, 1, Len(s) - 1))
    ELSE s

lower(s) ==
    [k \in 1..Len(s) |->
        CASE s[k] = "A" -> "a" [] s[k] = "U" -> "u" [] s[k] = "T" -> "t"
          [] s[k] = "O" -> "o" [] OTHER -> s[k]]

RECURSIVE DigitsValue(_)
DigitsValue(s) ==
    IF s = <<>> THEN 0 ELSE DigitsValue(SubSeq(s, 1, Len(s) - 1)) * 10 + DigitVal(s[Len(s)])

NotANumber == [ok |-> FALSE, neg |-> FALSE, num |-> 0, den |-> 1]

\* float(text) for a text of digits, ".", "-", blanks and letters other than
\* those of an exponent, "inf" or "nan": the decimal num / den it denotes, or
\* ValueError
ParseFloat(text) ==
    LET neg  == text # <<>> /\ text[1] = "-"
        body == IF neg THEN Tail(text) ELSE text
        dots == {k \in 1..Len(body) : body[k] = "."}
        int  == IF dots = {} THEN body ELSE SubSeq(body, 1, (CHOOSE k \in dots : TRUE) - 1)
        frac == IF dots = {} THEN <<>>
                ELSE SubSeq(body, (CHOOSE k \in dots : TRUE) + 1, Len(body))
    IN  IF \/ Cardinality(dots) > 1
           \/ Len(int) + Len(frac) = 0
           \/ \E k \in 1..Len(int) : ~IsDigit(int[k])
           \/ \E k \in 1..Len(frac) : ~IsDigit(frac[k])
        THEN NotANumber
        ELSE [ok |-> TRUE, neg |-> neg, num |-> DigitsValue(int \o frac), den |-> 10 ^ Len(frac)]

NodeFailed == -1

\* the stand-in for an automatic branch without the minimum
AutoGasPrice_unclamped(node_price) ==
    FloatFloor(FloatMul(ToFloat(node_price, 1), gas_price_buffer))

\* the automatic branch: the node's price with the buffer applied, not below
\* the minimum
AutoGasPrice(node_price) ==
    LET gas_price_wei == FloatFloor(FloatMul(ToFloat(node_price, 1), gas_price_buffer))
        min_gas_wei   == min_gas_price_gwei * WeiPerGwei
    IN  IF gas_price_wei < min_gas_wei THEN min_gas_wei ELSE gas_price_wei

\* the stand-in for a manual branch without the minimum
ManualGasPrice_unclamped(f) == (f.num * WeiPerGwei) \div f.den

\* the manual price is below the minimum: the branch logs its warning
TooLow(f) == f.neg \/ f.num < min_gas_price_gwei * f.den

\* the manual branch for a text that float() accepts.  to_wei converts the
\* float through its repr, which gives back the decimal that was typed.
ManualGasPrice(f) ==
    IF f.neg \/ f.num < min_gas_price_gwei * f.den
    THEN min_gas_price_gwei * WeiPerGwei
    ELSE (f.num * WeiPerGwei) \div f.den

Raised(error, depth) == [status |-> error, value |-> 0, fallbacks |-> depth, warned |-> FALSE]

\* get_manual_gas_price: entry_text is the text of the entry, node_price
\* what w3.eth.gas_price answers, depth the number of calls already on the
\* stack.  The except branch calls the function again, which reads the same
\* entry again.
RECURSIVE get_manual_gas_price(_, _, _)
get_manual_gas_price(entry_text, node_price, depth) ==
    LET gas_price_str == strip(entry_text) IN
    IF lower(gas_price_str) = <<"a", "u", "t", "o">> \/ gas_price_str = <<>>
    THEN IF node_price = NodeFailed THEN Raised("ConnectionError", depth)
         ELSE [status |-> "ok", value |-> AutoGasPrice(node_price), fallbacks |-> depth,
               warned |-> FALSE]
    ELSE LET f == ParseFloat(gas_price_str) IN
         IF f.ok
         THEN [status |-> "ok", value |-> ManualGasPrice(f), fallbacks |-> depth,
               warned |-> TooLow(f)]
         ELSE IF depth + 1 >= RecursionLimit THEN Raised("RecursionError", depth + 1)
         ELSE get_manual_gas_price(entry_text, node_price, depth + 1)

\* ------------------------------------------------------------ pin state
FileIds == {"f1", "f2"}

\* the files of a batch of three, in list order
BatchFiles == <<"f1", "f2", "f3">>

BatchIds == {BatchFiles[k] : k \in 1..Len(BatchFiles)}

\* original_size of the file behind each id
FileSize == [file_id \in BatchIds |-> CHOOSE k \in 1..Len(BatchFiles) : BatchFiles[k] = file_id]

\* batch runs one behaviour starts
MaxRuns == 1

Runs == 1..MaxRuns

\* the radio buttons of the duration
Durations == {30, 90}

\* texts the user types into the gas price entry
PanelGasInputs == {<<"A", "u", "t", "o">>, <<"a", "b", "c">>}

GasPriceInputs ==
    PanelGasInputs
    \cup {<<"2">>, <<>>, <<" ">>, <<"a", "u", "t", "o">>, <<" ", "A", "U", "T", "O", " ">>,
          <<"0", ".", "5">>, <<" ", "3", " ">>, <<"2", ".", "5">>, <<"-", "1">>,
          <<"2", ".", "5", "5">>, <<"1">>,
          <<"1", ".", "2", ".", "3">>, <<".">>, <<"1", "x">>, <<"1", " ", "2">>}

\* prices w3.eth.gas_price answers, in wei
NodePrices == {0, 5, 9, 10, 11, 25, 50, 100}

\* the registry file: missing, or holding the JSON text of a dict
MissingFile == [state |-> "missing", content |-> EmptyDict]

FullFile(registry) == [state |-> "full", content |-> registry]

\* the threads that change the registry: an upload thread, the pin thread in
\* its write-back, and the foreground thread in delete_file
Threads == {"upload", "pin", "foreground"}

NoSaver == [pc |-> "idle", size |-> 0, buffer |-> MissingFile]

NoDeleteOp == [absent |-> FALSE, deleted |-> 0, error |-> "none"]

\* a dict with one more key, or one key set again
SetItem(d, k, v) == [x \in DOMAIN d \cup {k} |-> IF x = k THEN v ELSE d[x]]

\* del d[k]
DelItem(d, k) == [x \in DOMAIN d \ {k} |-> d[x]]

\* d.update(other)
Update(d, other) == [x \in DOMAIN d \cup DOMAIN other |-> IF x \in DOMAIN other THEN other[x] ELSE d[x]]

\* the record upload_file_thread creates
UploadRecord(file_id) ==
    [file_cid |-> file_id, original_size |-> FileSize[file_id], blockchain_pinned |-> FALSE]

\* the dict on_file_selection_changed builds of a record
FileDict(file_id, info) == [file_id |-> file_id, original_size |-> info.original_size]

NoTx == [file_id |-> "", nonce |-> -1, duration |-> 0, estimate |-> 0, gas |-> 0, hash |-> 0,
         fallbacks |-> 0]

\* what a run was confirmed for, where a specification follows it
NotAsked == [files |-> <<>>, duration |-> 0, network |-> ""]

NoWorker ==
    [pc |-> "idle", files |-> <<>>, i |-> 0, successful |-> 0, failed |-> 0, log |-> <<>>,
     tx |-> NoTx, refresh_used |-> 0, written |-> {},
     quote_ok |-> FALSE, balance_ok |-> FALSE, confirmed |-> FALSE,
     asked |-> NotAsked]

NoPreflight == [outcome |-> "none", tick |-> FALSE, files |-> 0, balance |-> 0, cost |-> 0,
                gas_price |-> 0, quote_ok |-> FALSE, balance_ok |-> FALSE]

NoGas == [status |-> "none", entry_text |-> <<>>, node_price |-> 0, result |-> Raised("none", 0)]

\* A behaviour follows the program through MaxRuns batch runs.  What the user
\* and the upload threads do is followed while a run can still be started or
\* is under way, and the selection while a thread can still take it.
RunPossible == runs < MaxRuns

RunUnderWay == \E r \in Runs : worker[r].pc \notin {"idle", "summarized", "done", "error_shown"}

PinInit ==
    /\ gas = NoGas
    /\ w3 = "None"
    /\ account = "None"
    /\ contract = "None"
    /\ connect_btn = "normal"
    /\ pin_btn = "disabled"
    /\ gas_price_var = <<"A", "u", "t", "o">>
    /\ duration_var = 30
    /\ selected_files = <<>>
    /\ dialog = "none"
    /\ preflight = NoPreflight
    /\ file_registry = EmptyDict
    /\ registry_file = MissingFile
    /\ savers = [t \in Threads |-> NoSaver]
    /\ delete_op = NoDeleteOp
    /\ network_var = "sepolia"
    /\ worker = [r \in Runs |-> NoWorker]
    /\ runs = 0
    /\ txs = <<>>

Init == CryptoInit /\ PinInit

SpecCrypto == Init /\ [][CryptoNext]_vars

\* --------------------------------------------------- gas price, observed
GetManualGasPrice ==
    /\ \E text \in GasPriceInputs, node_price \in NodePrices \cup {NodeFailed} :
        gas' = [status |-> "called", entry_text |-> text, node_price |-> node_price,
                result |-> get_manual_gas_price(text, node_price, 0)]
    /\ UNCHANGED <<cryptoVars, persistVars, network_var, panelVars, registryVars, runVars>>

SpecGas == Init /\ [][GetManualGasPrice]_vars

\* ------------------------------------------------ connection and wallet
check_enable_features(w3v, acc, con) ==
    IF w3v # "None" /\ acc # "None" /\ con # "None" THEN "normal" ELSE "disabled"

\* connect_blockchain: the url is missing, the node does not answer, or all
\* goes well
connect_blockchain(outcome) ==
    /\ connect_btn = "normal" /\ dialog = "none"
    /\ w3' = CASE outcome = "no_url"      -> w3
               [] outcome = "unreachable" -> "unconnected"
               [] OTHER                   -> "connected"
    /\ connect_btn' = IF outcome = "ok" THEN "disabled" ELSE "normal"
    /\ pin_btn' = IF outcome = "ok" THEN check_enable_features("connected", account, contract)
                  ELSE pin_btn
    /\ UNCHANGED <<account, contract, gas_price_var, duration_var, selected_files, dialog,
                   preflight>>
    /\ UNCHANGED <<cryptoVars, persistVars, network_var, gas, registryVars, runVars>>

ConnectBlockchain == \E outcome \in {"no_url", "unreachable", "ok"} : connect_blockchain(outcome)

\* import_private_key: cancelled or a malformed key, a balance query that
\* fails after the account was set, or all goes well
import_private_key(outcome) ==
    /\ dialog = "none" /\ w3 # "None"
    /\ outcome = "ok" => w3 = "connected"
    /\ account' = IF outcome = "bad_key" THEN account ELSE "set"
    /\ pin_btn' = IF outcome = "ok" THEN check_enable_features(w3, "set", contract)
                  ELSE pin_btn
    /\ UNCHANGED <<w3, contract, connect_btn, gas_price_var, duration_var, selected_files,
                   dialog, preflight>>
    /\ UNCHANGED <<cryptoVars, persistVars, network_var, gas, registryVars, runVars>>

ImportPrivateKey == \E outcome \in {"bad_key", "balance_fails", "ok"} : import_private_key(outcome)

\* generate_wallet, the key viewed: the balance is queried only with a w3
generate_wallet(w3v, acc, con, btn, balance_ok) ==
    IF w3v # "None" /\ ~balance_ok THEN [account |-> "set", pin_btn |-> btn]
    ELSE [account |-> "set", pin_btn |-> check_enable_features(w3v, "set", con)]

GenerateWallet ==
    /\ dialog = "none"
    /\ \E balance_ok \in BOOLEAN :
        /\ balance_ok => w3 # "unconnected"
        /\ ~balance_ok => w3 # "None"
        /\ LET r == generate_wallet(w3, account, contract, pin_btn, balance_ok) IN
            /\ account' = r.account
            /\ pin_btn' = r.pin_btn
    /\ UNCHANGED <<w3, contract, connect_btn, gas_price_var, duration_var, selected_files,
                   dialog, preflight>>
    /\ UNCHANGED <<cryptoVars, persistVars, network_var, gas, registryVars, runVars>>

\* load_contract: no usable address, a test call that fails after the
\* contract was set, or all goes well
load_contract(outcome) ==
    /\ dialog = "none" /\ w3 # "None"
    /\ outcome = "ok" => w3 = "connected"
    /\ contract' = IF outcome = "bad_address" THEN contract ELSE "set"
    /\ pin_btn' = IF outcome = "ok" THEN check_enable_features(w3, account, "set")
                  ELSE pin_btn
    /\ UNCHANGED <<w3, account, connect_btn, gas_price_var, duration_var, selected_files,
                   dialog, preflight>>
    /\ UNCHANGED <<cryptoVars, persistVars, network_var, gas, registryVars, runVars>>

LoadContract == \E outcome \in {"bad_address", "call_fails", "ok"} : load_contract(outcome)

\* the user types into the gas price entry
SetGasPrice ==
    /\ dialog = "none" /\ (RunPossible \/ RunUnderWay)
    /\ \E text \in PanelGasInputs : text # gas_price_var /\ gas_price_var' = text
    /\ UNCHANGED <<w3, account, contract, connect_btn, pin_btn, duration_var, selected_files,
                   dialog, preflight>>
    /\ UNCHANGED <<cryptoVars, persistVars, network_var, gas, registryVars, runVars>>

\* the user picks another network in the combobox
Networks == {"sepolia", "mainnet"}

OnNetworkChange ==
    /\ dialog = "none" /\ (RunPossible \/ RunUnderWay)
    /\ \E network \in Networks : network # network_var /\ network_var' = network
    /\ UNCHANGED <<cryptoVars, persistVars, gas, panelVars, registryVars, runVars>>

\* the user picks another duration
SetDuration ==
    /\ dialog = "none" /\ (RunPossible \/ RunUnderWay)
    /\ \E days \in Durations : days # duration_var /\ duration_var' = days
    /\ UNCHANGED <<w3, account, contract, connect_btn, pin_btn, gas_price_var, selected_files,
                   dialog, preflight>>
    /\ UNCHANGED <<cryptoVars, persistVars, network_var, gas, registryVars, runVars>>

\* ------------------------------------------------------------- registry
\* what the user can select in the file list, in list order
Selections == {<<>>, <<"f1">>, <<"f2">>, <<"f1", "f2">>}

\* on_file_selection_changed: the dicts of the selected records that exist
\* and are not pinned
RECURSIVE on_file_selection_changed(_, _)
on_file_selection_changed(selection, registry) ==
    IF selection = <<>> THEN <<>>
    ELSE LET file_id == Head(selection)
             rest    == on_file_selection_changed(Tail(selection), registry)
         IN  IF file_id \in DOMAIN registry /\ ~registry[file_id].blockchain_pinned
             THEN <<FileDict(file_id, registry[file_id])>> \o rest
             ELSE rest

OnFileSelectionChanged ==
    /\ dialog = "none" /\ (RunPossible \/ \E r \in Runs : worker[r].pc = "start")
    /\ \E selection \in Selections :
        selected_files' = on_file_selection_changed(selection, file_registry)
    /\ UNCHANGED <<w3, account, contract, connect_btn, pin_btn, gas_price_var, duration_var,
                   dialog, preflight>>
    /\ UNCHANGED <<cryptoVars, persistVars, network_var, gas, registryVars, runVars>>

\* the loop of delete_file: a pinned record goes only if the user agrees
RECURSIVE delete_file(_, _, _)
delete_file(selection, registry, agrees) ==
    IF selection = <<>> THEN registry
    ELSE LET file_id == Head(selection) IN
         IF file_id \in DOMAIN registry
            /\ (registry[file_id].blockchain_pinned => agrees[file_id])
         THEN delete_file(Tail(selection), DelItem(registry, file_id), agrees)
         ELSE delete_file(Tail(selection), registry, agrees)

\* delete_file with its save_registry; the registry file is written only
\* when something was deleted
DeleteFile ==
    /\ dialog = "none" /\ (RunPossible \/ RunUnderWay)
    /\ \E selection \in Selections \ {<<>>}, agrees \in [FileIds -> BOOLEAN] :
        LET registry == delete_file(selection, file_registry, agrees) IN
        /\ registry # file_registry
        /\ file_registry' = registry
        /\ registry_file' = FullFile(registry)
    /\ UNCHANGED <<cryptoVars, persistVars, network_var, gas, panelVars, runVars>>

\* upload_file_thread from the registry's side: a failed encryption or store
\* raises before the record is made
upload_file_thread(registry, file_id, outcome) ==
    IF outcome = "ok" THEN SetItem(registry, file_id, UploadRecord(file_id)) ELSE registry

UploadFileThread ==
    /\ RunPossible \/ RunUnderWay
    /\ \E file_id \in FileIds, outcome \in {"encrypt_fails", "store_fails", "ok"} :
        LET registry == upload_file_thread(file_registry, file_id, outcome) IN
        /\ file_registry' = registry
        /\ registry_file' = IF outcome = "ok" THEN FullFile(registry) ELSE registry_file
    /\ UNCHANGED <<cryptoVars, persistVars, network_var, gas, panelVars, runVars>>

\* ------------------------------------------------------------ pin_files
\* sums the code forms in wei
CostQuotes == {0, 1000000}
Balances == {0, 3500000, 3849999, 3850000, 3850001, 4950000, 7700000, 8800000, 100000000}

RpcFailed == -1

\* estimated_gas_per_file
estimated_gas_per_file == 350000

\* the literal 1.1 of the balance check
SafetyMargin == ToFloat(11, 10)

\* balance_eth < total_cost * 1.1, with every amount converted to a float
\* of ether before the sum and the product
InsufficientBalance(balance_wei, cost_wei, gas_price_wei, file_count) ==
    LET balance_eth  == ToFloat(balance_wei, WeiPerEther)
        cost_eth     == ToFloat(cost_wei, WeiPerEther)
        total_gas    == estimated_gas_per_file * file_count
        gas_cost_eth == ToFloat(total_gas * gas_price_wei, WeiPerEther)
        total_cost   == FloatAdd(cost_eth, gas_cost_eth)
    IN  FloatLess(balance_eth, FloatMul(total_cost, SafetyMargin))

Aborted(outcome, count) ==
    [outcome |-> outcome, tick |-> FALSE, files |-> count, balance |-> 0, cost |-> 0,
     gas_price |-> 0, quote_ok |-> FALSE, balance_ok |-> FALSE]

\* pin_files up to the confirmation dialog
pin_files(files, w3v, balance_wei, cost_wei, entry_text, node_price) ==
    IF files = <<>> THEN Aborted("no_selection", 0)
    ELSE IF w3v # "connected" \/ balance_wei = RpcFailed THEN Aborted("no_connection", Len(files))
    ELSE IF cost_wei = RpcFailed THEN Aborted("quote_failed", Len(files))
    ELSE LET g == get_manual_gas_price(entry_text, node_price, 0) IN
         IF g.status # "ok" THEN Aborted("quote_failed", Len(files))
         ELSE LET short == InsufficientBalance(balance_wei, cost_wei, g.value, Len(files)) IN
              [outcome    |-> IF short THEN "insufficient" ELSE "confirming",
               tick       |-> FALSE,
               files      |-> Len(files),
               balance    |-> balance_wei,
               cost       |-> cost_wei,
               gas_price  |-> g.value,
               quote_ok   |-> TRUE,
               balance_ok |-> ~short]

\* the first half of pin_files, with the amounts the node may answer; the
\* amounts are kept for inspection only where observed is set
PinFilesWith(balances, quotes, prices, observed) ==
    /\ pin_btn = "normal" /\ dialog = "none" /\ runs < MaxRuns
    /\ \E balance_wei \in balances \cup {RpcFailed}, cost_wei \in quotes \cup {RpcFailed},
          node_price \in prices \cup {NodeFailed} :
        LET r == pin_files(selected_files, w3, balance_wei, cost_wei, gas_price_var, node_price)
        IN  /\ preflight' = [r EXCEPT !.tick = ~preflight.tick,
                                       !.balance = IF observed THEN @ ELSE 0,
                                       !.cost = IF observed THEN @ ELSE 0,
                                       !.gas_price = IF observed THEN @ ELSE 0]
            /\ dialog' = IF r.outcome = "confirming" THEN "confirm" ELSE "none"
    /\ UNCHANGED <<w3, account, contract, connect_btn, pin_btn, gas_price_var, duration_var,
                   selected_files>>
    /\ UNCHANGED <<cryptoVars, persistVars, network_var, gas, registryVars, runVars>>

PinFiles == PinFilesWith({0, 100000000}, {0}, {10}, FALSE)

\* the stand-in for a pin_files that goes on whatever the answer
after_confirmation_any(answer) == "execute_pinning"

\* what pin_files does with the answer to "Proceed with transaction?"
after_confirmation(answer) == IF answer THEN "execute_pinning" ELSE "return"

\* the second half of pin_files and, on "yes", execute_pinning up to the
\* start of the thread
ConfirmPinningWith(observed) ==
    /\ dialog = "confirm"
    /\ \E answer \in BOOLEAN :
        IF after_confirmation(answer) = "execute_pinning"
        THEN /\ pin_btn' = "disabled"
             /\ runs' = runs + 1
             /\ worker' = [worker EXCEPT ![runs + 1] =
                              [NoWorker EXCEPT !.pc = "start",
                                               !.quote_ok = preflight.quote_ok,
                                               !.balance_ok = preflight.balance_ok,
                                               !.confirmed = answer,
                                               !.asked = IF observed
                                                         THEN [files |-> selected_files,
                                                               duration |-> duration_var,
                                                               network |-> network_var]
                                                         ELSE NotAsked]]
             /\ preflight' = [preflight EXCEPT !.outcome = "started"]
        ELSE /\ preflight' = [preflight EXCEPT !.outcome = "declined"]
             /\ UNCHANGED <<pin_btn, runs, worker>>
    /\ dialog' = "none"
    /\ UNCHANGED <<w3, account, contract, connect_btn, gas_price_var, duration_var,
                   selected_files, txs>>
    /\ UNCHANGED <<cryptoVars, persistVars, network_var, gas, registryVars>>

ConfirmPinning == ConfirmPinningWith(FALSE)

\* ----------------------------------------------------------- pin_thread
Mined == {"mined_ok", "mined_failed"}

\* w3.eth.get_transaction_count(account): the transactions mined so far
get_transaction_count(sent) == Cardinality({k \in 1..Len(sent) : sent[k].status \in Mined})

\* a line of the transaction log about the file in hand, with the number of
\* times get_manual_gas_price fell back in the steps of that file
LogLine(w, result, cause) ==
    [file_id |-> w.files[w.i].file_id, result |-> result, cause |-> cause, gas_used |-> 0,
     fallbacks |-> w.tx.fallbacks]

\* the end of one pass of the loop: the next file, or the summary
NextFile(w) ==
    IF w.i < Len(w.files)
    THEN [w EXCEPT !.pc = "prepare", !.i = @ + 1, !.tx = NoTx, !.refresh_used = 0]
    ELSE [w EXCEPT !.pc = "summarized", !.tx = NoTx, !.refresh_used = 0]

\* the stand-in for a handler that gives the batch up
except_Exception_abort(w, cause) ==
    [w EXCEPT !.pc = "summarized", !.failed = @ + 1,
              !.log = Append(@, LogLine(w, "Failed", cause)), !.tx = NoTx, !.refresh_used = 0]

\* the stand-in for a handler that tries the file again
except_Exception_retry(w, cause) ==
    [w EXCEPT !.pc = "prepare", !.failed = @ + 1,
              !.log = Append(@, LogLine(w, "Failed", cause)), !.tx = NoTx, !.refresh_used = 0]

\* except Exception of the loop body: failed += 1; continue
except_Exception(w, cause) ==
    NextFile([w EXCEPT !.failed = @ + 1, !.log = Append(@, LogLine(w, "Failed", cause))])

\* for i, file in enumerate(self.selected_files): the thread takes the list
\* the panel holds when it starts
PinThreadStart(r) ==
    /\ worker[r].pc = "start"
    /\ worker' = [worker EXCEPT ![r] =
                     IF selected_files = <<>>
                     THEN [@ EXCEPT !.pc = "summarized", !.files = selected_files]
                     ELSE [@ EXCEPT !.pc = "prepare", !.files = selected_files, !.i = 1]]
    /\ UNCHANGED <<runs, txs>>
    /\ UNCHANGED <<cryptoVars, persistVars, network_var, gas, panelVars, registryVars>>

\* config.gas_limit_buffer, the float nearest to 1.2
gas_limit_buffer == ToFloat(12, 10)

\* config.max_gas_limit and config.default_gas_limit.  Gas is counted in
\* units of 10,000, so that the amounts are floats of MantissaBits bits as
\* the program's amounts are floats of 53 bits.
max_gas_limit == 200
default_gas_limit == 50

\* estimate_gas raised
EstimateFailed == -1

\* what estimate_gas answers
EstimatedGas == {46, 150, 200}

\* the stand-in for a limit that is not capped
gas_limit_uncapped(estimated_gas) ==
    IF estimated_gas = EstimateFailed THEN default_gas_limit
    ELSE FloatFloor(FloatMul(ToFloat(estimated_gas, 1), gas_limit_buffer))

\* the inner try of the loop body: the estimate with its buffer, capped, or
\* the default when estimate_gas raised
gas_limit(estimated_gas) ==
    IF estimated_gas = EstimateFailed THEN default_gas_limit
    ELSE LET buffered == FloatFloor(FloatMul(ToFloat(estimated_gas, 1), gas_limit_buffer))
         IN  IF buffered > max_gas_limit THEN max_gas_limit ELSE buffered

\* one file up to its signed transaction: quote, nonce, gas price, gas
\* estimate (a failure there only changes the limit), build and sign.  The
\* estimate and the limit are kept for inspection only where observed is set.
PinPrepareWith(r, estimates, observed) ==
    /\ worker[r].pc = "prepare"
    /\ \E raises \in {"none", "quote", "nonce", "build", "sign"}, node_price \in {10, NodeFailed},
          estimated_gas \in estimates \cup {EstimateFailed} :
        LET w == worker[r]
            g == get_manual_gas_price(gas_price_var, node_price, 0)
        IN  /\ w3 # "connected" => raises = "quote"
            /\ worker' = [worker EXCEPT ![r] =
                   IF raises \in {"quote", "nonce"} THEN except_Exception(w, raises)
                   ELSE IF g.status # "ok"
                        THEN except_Exception([w EXCEPT !.tx.fallbacks = g.fallbacks], "gas_price")
                   ELSE IF raises # "none" THEN except_Exception(w, raises)
                   ELSE [w EXCEPT !.pc = "send",
                                  !.tx = [file_id  |-> w.files[w.i].file_id,
                                          nonce    |-> get_transaction_count(txs),
                                          duration |-> duration_var,
                                          estimate |-> IF observed THEN estimated_gas ELSE 0,
                                          gas      |-> IF observed THEN gas_limit(estimated_gas)
                                                       ELSE 0,
                                          hash     |-> 0,
                                          fallbacks |-> g.fallbacks]]]
    /\ UNCHANGED <<runs, txs>>
    /\ UNCHANGED <<cryptoVars, persistVars, network_var, gas, panelVars, registryVars>>

PinPrepare(r) == PinPrepareWith(r, {150}, FALSE)

\* the stand-in for a loop that goes on without waiting for the receipt
after_send_no_wait(w, tx_hash) == NextFile([w EXCEPT !.tx.hash = tx_hash])

\* after send_raw_transaction returned the hash: wait for the receipt
after_send(w, tx_hash) == [w EXCEPT !.pc = "receipt", !.tx.hash = tx_hash]

\* a pending transaction with the nonce of a new one is replaced by it
Replace(sent, nonce) ==
    [k \in 1..Len(sent) |->
        IF sent[k].status = "pending" /\ sent[k].nonce = nonce
        THEN [sent[k] EXCEPT !.status = "replaced"] ELSE sent[k]]

\* send_raw_transaction: the node takes the transaction or refuses it; it
\* refuses a nonce that a mined transaction has used
PinSend(r) ==
    /\ worker[r].pc = "send"
    /\ \E accepted \in BOOLEAN :
        LET w == worker[r] IN
        /\ accepted => (w3 = "connected" /\ w.tx.nonce = get_transaction_count(txs))
        /\ IF accepted
           THEN /\ txs' = Append(Replace(txs, w.tx.nonce),
                                 [run |-> r, index |-> w.i, file_id |-> w.tx.file_id,
                                  nonce |-> w.tx.nonce, duration |-> w.tx.duration,
                                  estimate |-> w.tx.estimate, gas |-> w.tx.gas,
                                  gas_used |-> 0, fallbacks |-> w.tx.fallbacks,
                                  status |-> "pending"])
                /\ worker' = [worker EXCEPT ![r] = after_send(w, Len(txs) + 1)]
           ELSE /\ worker' = [worker EXCEPT ![r] = except_Exception(w, "broadcast")]
                /\ UNCHANGED txs
    /\ UNCHANGED runs
    /\ UNCHANGED <<cryptoVars, persistVars, network_var, gas, panelVars, registryVars>>

\* the stand-in for an update that sets the flag and drops the rest of pin_info
update_file_pinning_status_flag_only(registry, file_id, pin_info) ==
    IF file_id \in DOMAIN registry
    THEN SetItem(registry, file_id, [registry[file_id] EXCEPT !.blockchain_pinned = TRUE])
    ELSE registry

\* the stand-in for an update that puts pin_info in the place of the record
update_file_pinning_status_replace(registry, file_id, pin_info) ==
    IF file_id \in DOMAIN registry THEN SetItem(registry, file_id, pin_info) ELSE registry

\* update_file_pinning_status up to its save_registry
update_file_pinning_status(registry, file_id, pin_info) ==
    IF file_id \in DOMAIN registry
    THEN SetItem(registry, file_id, Update(registry[file_id], pin_info))
    ELSE registry

\* receipt['gasUsed'] of a mined transaction
GasUsed == {21, 30}

\* the stand-in for a write-back that does not carry the transaction's hash
PinInfo_no_hash(tx_hash, days, network) ==
    [blockchain_pinned |-> TRUE, pin_tx |-> 0, pin_duration_days |-> days,
     pin_network |-> network]

\* the dict the thread passes to file_registry_callback
PinInfo(tx_hash, days, network) ==
    [blockchain_pinned |-> TRUE, pin_tx |-> tx_hash, pin_duration_days |-> days,
     pin_network |-> network]

\* wait_for_transaction_receipt and what follows it.  A receipt with status 1
\* counts the file as successful and then writes the registry back: the
\* record is updated and saved, and refresh_file_list starts to walk the
\* registry.  The other threads run while it walks.  The gas the receipt
\* reports is kept for inspection only where observed is set.
PinReceiptWith(r, amounts, observed) ==
    /\ worker[r].pc = "receipt"
    /\ \E receipt \in {"status_1", "status_0", "timeout"}, gas_used \in amounts :
        LET w        == worker[r]
            file_id  == w.tx.file_id
            actual_gas_used == IF observed THEN gas_used ELSE 0
            counted  == [w EXCEPT !.successful = @ + 1,
                                  !.log = Append(@, [LogLine(w, "Success", "receipt")
                                                        EXCEPT !.gas_used = actual_gas_used])]
        IN  /\ receipt # "timeout" => (w3 = "connected" /\ txs[w.tx.hash].status = "pending")
            /\ receipt = "timeout" => gas_used = CHOOSE g \in amounts : TRUE
            /\ CASE receipt = "status_1" ->
                      /\ txs' = [txs EXCEPT ![w.tx.hash].status = "mined_ok",
                                            ![w.tx.hash].gas_used = actual_gas_used]
                      /\ file_registry' = update_file_pinning_status(
                                              file_registry, file_id, PinInfo(w.tx.hash, duration_var, network_var))
                      /\ registry_file' = IF file_id \in DOMAIN file_registry
                                          THEN FullFile(file_registry') ELSE registry_file
                      /\ worker' = [worker EXCEPT ![r] =
                                       IF file_id \in DOMAIN file_registry
                                       THEN [counted EXCEPT
                                                !.pc = "refresh",
                                                !.written = @ \cup {file_id},
                                                !.refresh_used = Cardinality(DOMAIN file_registry)]
                                       ELSE NextFile(counted)]
                 [] receipt = "status_0" ->
                      /\ txs' = [txs EXCEPT ![w.tx.hash].status = "mined_failed",
                                            ![w.tx.hash].gas_used = actual_gas_used]
                      /\ worker' = [worker EXCEPT ![r] =
                                       NextFile([w EXCEPT !.failed = @ + 1,
                                                          !.log = Append(@, LogLine(w, "Failed", "status"))])]
                      /\ UNCHANGED registryVars
                 [] OTHER ->
                      /\ worker' = [worker EXCEPT ![r] = except_Exception(w, "timeout")]
                      /\ UNCHANGED <<txs, registryVars>>
    /\ UNCHANGED runs
    /\ UNCHANGED <<cryptoVars, persistVars, network_var, gas, panelVars>>

PinReceipt(r) == PinReceiptWith(r, {21}, FALSE)

\* the end of refresh_file_list in the write-back: the dict iterator raises
\* RuntimeError when the registry has another size than when the walk began,
\* and the handler of the loop body catches it
PinRefresh(r) ==
    /\ worker[r].pc = "refresh"
    /\ worker' = [worker EXCEPT ![r] =
                     IF Cardinality(DOMAIN file_registry) # @.refresh_used
                     THEN except_Exception(@, "write_back")
                     ELSE NextFile(@)]
    /\ UNCHANGED <<runs, txs>>
    /\ UNCHANGED <<cryptoVars, persistVars, network_var, gas, panelVars, registryVars>>

\* the stand-in for a completion that leaves the pin button as it is
OnPinningComplete_no_button(r) ==
    /\ worker[r].pc = "summarized"
    /\ worker' = [worker EXCEPT ![r].pc = "done"]
    /\ UNCHANGED <<runs, txs>>
    /\ UNCHANGED <<cryptoVars, persistVars, network_var, gas, panelVars, registryVars>>

\* on_pinning_complete, scheduled by the thread after its summary
OnPinningComplete(r) ==
    /\ worker[r].pc = "summarized"
    /\ worker' = [worker EXCEPT ![r].pc = "done"]
    /\ pin_btn' = "normal"
    /\ UNCHANGED <<w3, account, contract, connect_btn, gas_price_var, duration_var,
                   selected_files, dialog, preflight>>
    /\ UNCHANGED <<runs, txs>>
    /\ UNCHANGED <<cryptoVars, persistVars, network_var, gas, registryVars>>

PinThread(r) == PinThreadStart(r) \/ PinPrepare(r) \/ PinSend(r) \/ PinReceipt(r) \/ PinRefresh(r)

Next ==
    \/ ConnectBlockchain
    \/ ImportPrivateKey
    \/ GenerateWallet
    \/ LoadContract
    \/ SetGasPrice
    \/ SetDuration
    \/ OnFileSelectionChanged
    \/ DeleteFile
    \/ UploadFileThread
    \/ PinFiles
    \/ ConfirmPinning
    \/ \E r \in Runs : PinThread(r)
    \/ \E r \in Runs : OnPinningComplete(r)

Spec == Init /\ [][Next]_vars

\* ------------------------------------------------- the balance check
\* a panel ready to pin: connected, with a wallet and a contract, the two
\* files uploaded and some of them selected
PreflightInit ==
    /\ CryptoInit
    /\ gas = NoGas
    /\ w3 = "connected" /\ account = "set" /\ contract = "set"
    /\ connect_btn = "disabled" /\ pin_btn = "normal"
    /\ gas_price_var \in PanelGasInputs
    /\ duration_var \in Durations
    /\ file_registry = [file_id \in FileIds |-> UploadRecord(file_id)]
    /\ registry_file = FullFile(file_registry)
    /\ savers = [t \in Threads |-> NoSaver]
    /\ delete_op = NoDeleteOp
    /\ network_var = "sepolia"
    /\ selected_files \in {on_file_selection_changed(selection, file_registry) :
                              selection \in Selections}
    /\ dialog = "none"
    /\ preflight = NoPreflight
    /\ worker = [r \in Runs |-> NoWorker]
    /\ runs = 0
    /\ txs = <<>>

PinFilesAnyBalance == PinFilesWith(Balances, CostQuotes, NodePrices, TRUE)

SpecPreflight == PreflightInit /\ [][PinFilesAnyBalance]_vars

\* ------------------------------------------------- a batch of three
\* the panel when execute_pinning has started the thread of a confirmed run
\* of three uploaded files
BatchInit ==
    /\ CryptoInit
    /\ gas = NoGas
    /\ w3 = "connected" /\ account = "set" /\ contract = "set"
    /\ connect_btn = "disabled" /\ pin_btn = "disabled"
    /\ gas_price_var \in PanelGasInputs
    /\ duration_var = 30
    /\ file_registry = [file_id \in BatchIds |-> UploadRecord(file_id)]
    /\ registry_file = FullFile(file_registry)
    /\ savers = [t \in Threads |-> NoSaver]
    /\ delete_op = NoDeleteOp
    /\ network_var = "sepolia"
    /\ selected_files = on_file_selection_changed(BatchFiles, file_registry)
    /\ dialog = "none"
    /\ preflight = [Aborted("started", Len(BatchFiles)) EXCEPT !.quote_ok = TRUE,
                                                                !.balance_ok = TRUE]
    /\ worker = [r \in Runs |->
                    IF r = 1 THEN [NoWorker EXCEPT !.pc = "start", !.quote_ok = TRUE,
                                                   !.balance_ok = TRUE, !.confirmed = TRUE]
                    ELSE NoWorker]
    /\ runs = 1
    /\ txs = <<>>

PinPrepareAnyEstimate(r) == PinPrepareWith(r, EstimatedGas, TRUE)

PinReceiptAnyGas(r) == PinReceiptWith(r, GasUsed, TRUE)

BatchNext ==
    \/ SetGasPrice
    \/ \E r \in Runs : PinThreadStart(r)
    \/ \E r \in Runs : PinPrepareAnyEstimate(r)
    \/ \E r \in Runs : PinSend(r)
    \/ \E r \in Runs : PinReceiptAnyGas(r)
    \/ \E r \in Runs : PinRefresh(r)
    \/ \E r \in Runs : OnPinningComplete(r)

SpecBatch == BatchInit /\ [][BatchNext]_vars

\* ------------------------------------------------- after a run
\* the transaction of an earlier run that pinned f1
EarlierTx ==
    [run |-> 0, index |-> 1, file_id |-> "f1", nonce |-> 0, duration |-> 30, estimate |-> 0,
     gas |-> 0, gas_used |-> 0, fallbacks |-> 0, status |-> "mined_ok"]

\* The panel when a run over the selection f1, f2 has ended: f1 was pinned
\* and its record written back, f2 failed before it was sent, and
\* on_pinning_complete has enabled the pin button.  refresh_file_list has
\* deleted and inserted the rows of the file list; with a Tk that sends
\* <<TreeviewSelect>> when a selected row is deleted the panel holds an empty
\* list since, with any other it holds the list the run was started with.
RepinInit ==
    /\ CryptoInit
    /\ gas = NoGas
    /\ w3 = "connected" /\ account = "set" /\ contract = "set"
    /\ connect_btn = "disabled" /\ pin_btn = "normal"
    /\ gas_price_var = <<"A", "u", "t", "o">>
    /\ duration_var = 30
    /\ file_registry = [file_id \in FileIds |->
                           IF file_id = "f1"
                           THEN Update(UploadRecord(file_id), PinInfo(1, 30, "sepolia"))
                           ELSE UploadRecord(file_id)]
    /\ registry_file = FullFile(file_registry)
    /\ savers = [t \in Threads |-> NoSaver]
    /\ delete_op = NoDeleteOp
    /\ network_var = "sepolia"
    /\ selected_files \in {<<>>, <<FileDict("f1", UploadRecord("f1")),
                                    FileDict("f2", UploadRecord("f2"))>>}
    /\ dialog = "none"
    /\ preflight = NoPreflight
    /\ worker = [r \in Runs |-> NoWorker]
    /\ runs = 0
    /\ txs = <<EarlierTx>>

RepinNext ==
    \/ OnFileSelectionChanged
    \/ PinFiles
    \/ ConfirmPinning
    \/ \E r \in Runs : PinThread(r)
    \/ \E r \in Runs : OnPinningComplete(r)

SpecRepin == RepinInit /\ [][RepinNext]_vars

\* ------------------------------------------- the inputs during a run
\* A connected panel with two uploaded files selected, from the click on
\* "Pin Selected Files" on; what each run was confirmed for is kept.
InputsInit ==
    /\ CryptoInit
    /\ gas = NoGas
    /\ w3 = "connected" /\ account = "set" /\ contract = "set"
    /\ connect_btn = "disabled" /\ pin_btn = "normal"
    /\ gas_price_var = <<"A", "u", "t", "o">>
    /\ duration_var \in Durations
    /\ file_registry = [file_id \in FileIds |-> UploadRecord(file_id)]
    /\ registry_file = FullFile(file_registry)
    /\ savers = [t \in Threads |-> NoSaver]
    /\ delete_op = NoDeleteOp
    /\ network_var = "sepolia"
    /\ selected_files = <<FileDict("f1", UploadRecord("f1")),
                          FileDict("f2", UploadRecord("f2"))>>
    /\ dialog = "none"
    /\ preflight = NoPreflight
    /\ worker = [r \in Runs |-> NoWorker]
    /\ runs = 0
    /\ txs = <<>>

ConfirmPinningObserved == ConfirmPinningWith(TRUE)

InputsNext ==
    \/ OnNetworkChange
    \/ SetGasPrice
    \/ SetDuration
    \/ OnFileSelectionChanged
    \/ PinFiles
    \/ ConfirmPinningObserved
    \/ \E r \in Runs : PinThread(r)
    \/ \E r \in Runs : OnPinningComplete(r)

SpecInputs == InputsInit /\ [][InputsNext]_vars

\* ------------------------------------------------- the end of a run
\* the outer handler of pin_thread: an error outside the handler of the loop
\* body ends the thread without a summary and schedules on_pinning_error
PinThreadError(r) ==
    /\ worker[r].pc \in {"start", "prepare", "send", "receipt", "refresh"}
    /\ worker' = [worker EXCEPT ![r] = [@ EXCEPT !.pc = "error", !.tx = NoTx, !.refresh_used = 0]]
    /\ UNCHANGED <<runs, txs>>
    /\ UNCHANGED <<cryptoVars, persistVars, network_var, gas, panelVars, registryVars>>

\* on_pinning_error, scheduled by the outer handler
OnPinningError(r) ==
    /\ worker[r].pc = "error"
    /\ worker' = [worker EXCEPT ![r].pc = "error_shown"]
    /\ pin_btn' = "normal"
    /\ UNCHANGED <<w3, account, contract, connect_btn, gas_price_var, duration_var,
                   selected_files, dialog, preflight>>
    /\ UNCHANGED <<runs, txs>>
    /\ UNCHANGED <<cryptoVars, persistVars, network_var, gas, registryVars>>

LiveNext ==
    \/ SetGasPrice
    \/ \E r \in Runs : PinThreadStart(r)
    \/ \E r \in Runs : PinPrepare(r)
    \/ \E r \in Runs : PinSend(r)
    \/ \E r \in Runs : PinReceipt(r)
    \/ \E r \in Runs : PinRefresh(r)
    \/ \E r \in Runs : PinThreadError(r)
    \/ \E r \in Runs : OnPinningComplete(r)
    \/ \E r \in Runs : OnPinningError(r)

\* The thread is scheduled until it ends, every call on the node returns or
\* times out, and the main loop runs the callbacks the thread schedules.
LiveFairness ==
    \A r \in Runs :
        /\ WF_vars(PinThreadStart(r))
        /\ WF_vars(PinPrepare(r))
        /\ WF_vars(PinSend(r))
        /\ WF_vars(PinReceipt(r))
        /\ WF_vars(PinRefresh(r))
        /\ WF_vars(OnPinningComplete(r))
        /\ WF_vars(OnPinningError(r))

SpecLive == BatchInit /\ [][LiveNext]_vars /\ LiveFairness

\* ------------------------------------------- the registry and its file
\* Here save_registry is followed step by step: open(..., 'w') empties the
\* file, json.dump walks the dict and fills the buffer of the file object,
\* and leaving the with block flushes the buffer to the start of the file.
\* No lock is taken, so the threads interleave between the steps.
TruncatedFile == [state |-> "truncated", content |-> EmptyDict]

\* a file whose text is not JSON: the beginning of a text, or a text with
\* the end of a longer one behind it
BrokenFile == [state |-> "broken", content |-> EmptyDict]

\* load_registry: without a file the registry stays empty; json.load raises
\* on a text that is empty or not JSON, the handler logs that, and the
\* registry stays empty as well
load_registry(file) == IF file.state = "full" THEN file.content ELSE EmptyDict

RecordFields == {"file_cid", "original_size", "blockchain_pinned", "pin_tx", "pin_duration_days",
                 "pin_network"}

\* the keys json.dump spells out, the measure of the length of the text
Weight(registry) ==
    Cardinality(DOMAIN registry)
    + Cardinality({pair \in (DOMAIN registry) \X RecordFields :
                      pair[2] \in DOMAIN registry[pair[1]]})

\* what the file can hold after a buffer was flushed to its start: the
\* buffer's text when the file was empty or no longer than it, else the
\* buffer's text with the rest of the longer text behind it
Flushed(buffer, file) ==
    CASE file.state \in {"missing", "truncated"} -> {buffer}
      [] buffer.state = "full" /\ file.state = "full" ->
            IF Weight(buffer.content) >= Weight(file.content) THEN {buffer} ELSE {BrokenFile}
      [] buffer.state = "broken" /\ file.state = "full" -> {file, BrokenFile}
      [] buffer.state = "full" /\ file.state = "broken" -> {buffer, BrokenFile}
      [] OTHER -> {BrokenFile}

Idle(t) == savers[t].pc = "idle"

\* upload_file_thread from the new record on
RegistryUpload ==
    /\ Idle("upload")
    /\ \E file_id \in FileIds :
        file_registry' = upload_file_thread(file_registry, file_id, "ok")
    /\ savers' = [savers EXCEPT !["upload"].pc = "save"]
    /\ UNCHANGED <<registry_file, delete_op>>
    /\ UNCHANGED <<cryptoVars, gas, panelVars, runVars, network_var>>

\* update_file_pinning_status as the pin thread calls it after a receipt
RegistryUpdate ==
    /\ Idle("pin")
    /\ \E file_id \in FileIds :
        LET pin_info == PinInfo(1, 30, network_var) IN
        /\ file_registry' = update_file_pinning_status(file_registry, file_id, pin_info)
        /\ savers' = [savers EXCEPT !["pin"].pc =
                          IF file_id \in DOMAIN file_registry THEN "save" ELSE "idle"]
    /\ UNCHANGED <<registry_file, delete_op>>
    /\ UNCHANGED <<cryptoVars, gas, panelVars, runVars, network_var>>

\* delete_file up to its save_registry.  The ids come from the rows of the
\* file list, which can show a row whose id is no key of the registry.
RegistryDelete ==
    /\ Idle("foreground")
    /\ \E selection \in Selections \ {<<>>}, agrees \in [FileIds -> BOOLEAN] :
        LET registry == delete_file(selection, file_registry, agrees) IN
        /\ file_registry' = registry
        /\ delete_op' = [absent  |-> \E k \in 1..Len(selection) :
                                        selection[k] \notin DOMAIN file_registry,
                         deleted |-> Cardinality(DOMAIN file_registry \ DOMAIN registry),
                         error   |-> "none"]
        /\ savers' = [savers EXCEPT !["foreground"].pc =
                          IF registry # file_registry THEN "save" ELSE "idle"]
    /\ UNCHANGED registry_file
    /\ UNCHANGED <<cryptoVars, gas, panelVars, runVars, network_var>>

\* with open(config.registry_file, 'w') as f, and the start of json.dump
SaveOpen(t) ==
    /\ savers[t].pc = "save"
    /\ registry_file' = TruncatedFile
    /\ savers' = [savers EXCEPT ![t].pc = "dump",
                                ![t].size = Cardinality(DOMAIN file_registry)]
    /\ UNCHANGED <<file_registry, delete_op>>
    /\ UNCHANGED <<cryptoVars, gas, panelVars, runVars, network_var>>

\* the end of json.dump: the walk raises RuntimeError when the dict has
\* another size than when it began, and the text stops there
SaveDump(t) ==
    /\ savers[t].pc = "dump"
    /\ savers' = [savers EXCEPT ![t].pc = "close",
                                ![t].buffer =
                                    IF Cardinality(DOMAIN file_registry) # savers[t].size
                                    THEN BrokenFile ELSE FullFile(file_registry)]
    /\ UNCHANGED <<registryVars, delete_op>>
    /\ UNCHANGED <<cryptoVars, gas, panelVars, runVars, network_var>>

\* the end of the with block; an exception of json.dump is logged and dropped
SaveClose(t) ==
    /\ savers[t].pc = "close"
    /\ \E file \in Flushed(savers[t].buffer, registry_file) : registry_file' = file
    /\ savers' = [savers EXCEPT ![t] = NoSaver]
    /\ UNCHANGED <<file_registry, delete_op>>
    /\ UNCHANGED <<cryptoVars, gas, panelVars, runVars, network_var>>

save_registry(t) == SaveOpen(t) \/ SaveDump(t) \/ SaveClose(t)

\* the process ends, with whatever the file holds, and is started again
Restart ==
    /\ file_registry' = load_registry(registry_file)
    /\ savers' = [t \in Threads |-> NoSaver]
    /\ delete_op' = NoDeleteOp
    /\ UNCHANGED registry_file
    /\ UNCHANGED <<cryptoVars, gas, panelVars, runVars, network_var>>

RegistryNext ==
    \/ RegistryUpload
    \/ RegistryUpdate
    \/ RegistryDelete
    \/ \E t \in Threads : save_registry(t)
    \/ Restart

SpecRegistry == Init /\ [][RegistryNext]_vars

\* ------------------------------------------------------------ an upload
\* Here upload_file_thread is followed call by call, from the file the user
\* picked to the entry in the registry.
\* the content address IPFS gives an object: the name of the object and the
\* hash of the plaintext it belongs to stand for the hash of its content
Cid(name, encrypted_result) == <<name>> \o encrypted_result.original_hash

NoIpfsResult == [ok |-> FALSE, ipfs |-> {}, file_cid |-> <<>>, metadata_cid |-> <<>>]

\* the stand-in for a store that does not look at the answer to the metadata
store_encrypted_file_unchecked(encrypted_result, add_ok, metadata_ok, store) ==
    IF ~add_ok THEN [NoIpfsResult EXCEPT !.ipfs = store]
    ELSE [ok |-> TRUE,
          ipfs |-> store \cup {Cid("encrypted_file", encrypted_result)}
                         \cup (IF metadata_ok THEN {Cid("metadata.json", encrypted_result)} ELSE {}),
          file_cid |-> Cid("encrypted_file", encrypted_result),
          metadata_cid |-> Cid("metadata.json", encrypted_result)]

\* store_encrypted_file: the ciphertext is added, then the metadata; each
\* answer other than 200 with a Hash raises
store_encrypted_file(encrypted_result, add_ok, metadata_ok, store) ==
    IF ~add_ok THEN [NoIpfsResult EXCEPT !.ipfs = store]
    ELSE IF ~metadata_ok
    THEN [NoIpfsResult EXCEPT !.ipfs = store \cup {Cid("encrypted_file", encrypted_result)}]
    ELSE [ok |-> TRUE,
          ipfs |-> store \cup {Cid("encrypted_file", encrypted_result),
                                Cid("metadata.json", encrypted_result)},
          file_cid |-> Cid("encrypted_file", encrypted_result),
          metadata_cid |-> Cid("metadata.json", encrypted_result)]

\* file_id = encrypted_result['original_hash'][:16]
FileId(original_hash) ==
    SubSeq(original_hash, 1, IF Len(original_hash) < 16 THEN Len(original_hash) ELSE 16)

\* the entry upload_file_thread puts into the registry
FileEntry(encrypted_result, file_cid, metadata_cid) ==
    [file_cid |-> file_cid, metadata_cid |-> metadata_cid,
     original_size |-> encrypted_result.original_size,
     file_hash |-> encrypted_result.original_hash,
     blockchain_pinned |-> FALSE]

\* select_and_upload_file starts the thread, and the thread encrypts
UploadEncrypt ==
    /\ upload.pc \in {"idle", "done", "failed"} /\ upload.count < MaxUploads
    /\ \E exists \in BOOLEAN, file_data \in Plaintexts, password \in Passwords,
          salt \in Salts, ts \in Timestamps, iv \in IVs :
        LET r == encrypt_file(exists, file_data, password, salt, ts, iv) IN
        /\ enc' = [status |-> IF r.ok THEN "ok" ELSE "error", plain |-> file_data,
                   password |-> password, result |-> r]
        /\ upload' = [NoUpload EXCEPT !.pc = IF r.ok THEN "store" ELSE "failed",
                                      !.count = upload.count + 1,
                                      !.exists = exists,
                                      !.file_data = file_data,
                                      !.calls = <<"encrypt_file">>,
                                      !.before = file_registry]
    /\ UNCHANGED <<dec, ver, dl, dest, ipfs, pinVars>>

\* the thread stores the ciphertext and the metadata
UploadStore ==
    /\ upload.pc = "store"
    /\ \E add_ok \in BOOLEAN, metadata_ok \in BOOLEAN :
        LET r == store_encrypted_file(enc.result, add_ok, metadata_ok, ipfs) IN
        /\ ipfs' = r.ipfs
        /\ upload' = [upload EXCEPT !.pc = IF r.ok THEN "entry" ELSE "failed",
                                    !.calls = Append(@, "store_encrypted_file"),
                                    !.file_cid = r.file_cid,
                                    !.metadata_cid = r.metadata_cid]
    /\ UNCHANGED <<enc, dec, ver, dl, dest, pinVars>>

\* the thread creates the entry and saves the registry
UploadCreateEntry ==
    /\ upload.pc = "entry"
    /\ file_registry' = SetItem(file_registry, FileId(enc.result.original_hash),
                                FileEntry(enc.result, upload.file_cid, upload.metadata_cid))
    /\ registry_file' = FullFile(file_registry')
    /\ upload' = [upload EXCEPT !.pc = "done", !.calls = Append(@, "save_registry")]
    /\ UNCHANGED <<enc, dec, ver, dl, dest, ipfs>>
    /\ UNCHANGED <<gas, panelVars, runVars, persistVars, network_var>>

UploadNext == UploadEncrypt \/ UploadStore \/ UploadCreateEntry

SpecUpload == Init /\ [][UploadNext]_vars

\* ------------------------------------------------------- crypto claims
Token == enc.result.encrypted_data

DecryptCalled == enc.status = "ok" /\ dec.status # "none"

\* C1: decrypting the ciphertext of encrypt(P, W) with the same password W
\* and the salt that encrypt returned yields exactly P.
C1_RoundTrip ==
    (DecryptCalled /\ dec.encrypted_data = Token /\ dec.password = enc.password
        /\ dec.salt = enc.result.salt)
    => (dec.status = "ok" /\ dec.data = enc.plain)

C1_Witness ==
    /\ DecryptCalled /\ dec.encrypted_data = Token /\ dec.password = enc.password
    /\ dec.salt = enc.result.salt
    /\ dec.status = "ok" /\ Len(dec.data) = MaxLen

C3_VerifyIntegrity ==
    /\ ver.status = "called" =>
          /\ \A p \in Plaintexts : ver.hash = Sha256Hex(p) => (ver.result <=> p = ver.data)
          /\ ver.hash = enc.result.original_hash => (ver.result <=> ver.data = enc.plain)
    /\ enc.status = "ok" =>
          /\ enc.result.original_hash = Sha256Hex(enc.plain)
          /\ enc.result.original_hash # Sha256Hex(enc.result.encrypted_data)

C3_Witness ==
    /\ ver.status = "called" /\ ver.result
    /\ ver.hash = enc.result.original_hash /\ Len(ver.data) = MaxLen

\* what the download was given
DlRetrievalFailed == dl.retrieved = RetrievalFailed \/ dl.metadata.failed

DlDecrypted == decrypt_file(dl.retrieved, dl.password, SaltFromHex(dl.metadata.salt))

DlDecryptionFailed == ~DlRetrievalFailed /\ ~DlDecrypted.ok

DlHashMismatch ==
    /\ ~DlRetrievalFailed /\ DlDecrypted.ok
    /\ Sha256Hex(DlDecrypted.data) # dl.metadata.original_hash

\* C4: a retrieval writes to the destination only after decryption succeeded
\* and the decrypted data matched the stored content hash; if retrieval,
\* decryption or the hash comparison fails, the destination is left as it was
\* and the retrieval ends in an error.
C4_WriteAfterVerify ==
    dl.status # "none" =>
        /\ (DlRetrievalFailed \/ DlDecryptionFailed \/ DlHashMismatch)
              => (dl.status = "error" /\ dest[dl.save_path] = dl.before)
        /\ dl.status = "ok" => dest[dl.save_path] = DlDecrypted.data
        /\ \A path \in SavePaths \ {dl.save_path} : dest[path] = NoDlDest[path]

C4_Witness ==
    /\ dl.status = "error" /\ DlHashMismatch
    /\ dl.save_path = "existing" /\ dest["existing"] = dl.before

\* ------------------------------------------------------ pinning claims
Summarized(r) == worker[r].pc \in {"summarized", "done"}

InLoop(r) == worker[r].pc \in {"prepare", "send", "receipt", "refresh"}

\* the files of run r that have a line in its log
Logged(r) == {k \in 1..Len(worker[r].files) :
                 \E n \in 1..Len(worker[r].log) :
                     worker[r].log[n].file_id = worker[r].files[k].file_id}

\* C5: one file's failure never aborts the batch.  Whatever exception or
\* failure status a file produces, every later file is still attempted, so
\* a summarized run has processed every file it took, and a run in its loop
\* has processed every file before the current one.
C5_FailureNeverAborts ==
    \A r \in Runs :
        /\ Summarized(r) => Logged(r) = 1..Len(worker[r].files)
        /\ InLoop(r) => 1..(worker[r].i - 1) \subseteq Logged(r)

C5_Witness ==
    \E r \in Runs :
        /\ Summarized(r) /\ Len(worker[r].files) = 2 /\ Len(worker[r].log) = 2
        /\ worker[r].log[1].result = "Failed" /\ worker[r].log[1].cause = "timeout"
        /\ worker[r].log[2].result = "Success"

\* the files of run r that failed in submission, by receipt status or by
\* timeout
FailedFiles(r) ==
    {k \in 1..Len(worker[r].files) :
        \E n \in 1..Len(worker[r].log) :
            /\ worker[r].log[n].file_id = worker[r].files[k].file_id
            /\ worker[r].log[n].result = "Failed"
            /\ worker[r].log[n].cause # "write_back"}

\* C6: a batch of N files of which exactly M fail is summarized with
\* successful = N - M and failed = M, and the registry records the run
\* changed are exactly those of the N - M successful files.
C6_CountsAndRegistry ==
    \A r \in Runs :
        Summarized(r) =>
            LET N == Len(worker[r].files)
                M == Cardinality(FailedFiles(r))
            IN  /\ worker[r].successful = N - M
                /\ worker[r].failed = M
                /\ worker[r].written
                     = {worker[r].files[k].file_id : k \in (1..N) \ FailedFiles(r)}

\* C7: with total = pin_cost + 350,000 * file_count * gas_price, pin_files
\* rejects the batch exactly when balance < 1.10 * total, and a rejected
\* batch leaves no dialog open, no run started and nothing sent.
C7_BalanceThreshold ==
    preflight.outcome \in {"insufficient", "confirming"} =>
        LET total == preflight.cost + estimated_gas_per_file * preflight.files * preflight.gas_price
        IN  /\ preflight.outcome = "insufficient" <=> 10 * preflight.balance < 11 * total
            /\ preflight.outcome = "insufficient" => (dialog = "none" /\ runs = 0 /\ txs = <<>>)

\* a pin_files call that ended without starting a run
PreflightAborted ==
    /\ preflight' # preflight
    /\ preflight'.outcome \in {"no_selection", "no_connection", "quote_failed", "declined"}

\* C8: a transaction is broadcast only by a run whose quote succeeded, whose
\* balance check passed and which the user confirmed; a pin_files call that
\* ends on an empty selection, a missing connection, a failed quote or a
\* declined confirmation is back in Idle and has started no run, sent no
\* transaction and changed no registry record.
C8_BroadcastOnlyAfterConfirmation ==
    /\ [](\A k \in 1..Len(txs) :
             /\ worker[txs[k].run].quote_ok
             /\ worker[txs[k].run].balance_ok
             /\ worker[txs[k].run].confirmed)
    /\ [][PreflightAborted =>
             (dialog' = "none" /\ UNCHANGED <<pin_btn, registryVars, runVars>>)]_vars

C8_Witness ==
    /\ Len(txs) = 2
    /\ worker[1].confirmed /\ preflight.outcome = "started"

\* the transactions of run r whose outcome the run has not recorded
Awaiting(r) ==
    {k \in 1..Len(txs) :
        /\ txs[k].run = r
        /\ ~\E n \in 1..Len(worker[r].log) : worker[r].log[n].file_id = txs[k].file_id}

\* position of a file in the list the run took
IndexOf(r, file_id) == CHOOSE k \in 1..Len(worker[r].files) : worker[r].files[k].file_id = file_id

\* C9: within a run the files are submitted strictly one after the other in
\* selection order.  The steps of a file begin only when every earlier file
\* has its outcome recorded, at most one transaction of the run awaits its
\* receipt, and the outcomes appear in the order of the selection.
C9_Sequential ==
    \A r \in Runs :
        LET w == worker[r] IN
        /\ Cardinality(Awaiting(r)) <= 1
        /\ \A k \in Awaiting(r) : w.pc = "receipt" /\ w.tx.hash = k /\ txs[k].index = w.i
        /\ InLoop(r) => /\ 1..(w.i - 1) \subseteq Logged(r)
                        /\ \A k \in (w.i + 1)..Len(w.files) : k \notin Logged(r)
                        /\ w.pc \in {"prepare", "send"} => w.i \notin Logged(r)
        /\ \A a, b \in 1..Len(w.log) :
               a < b => IndexOf(r, w.log[a].file_id) <= IndexOf(r, w.log[b].file_id)
        /\ \A a, b \in 1..Len(txs) :
               (a < b /\ txs[a].run = r /\ txs[b].run = r) => txs[a].index < txs[b].index

C9_Witness ==
    \E r \in Runs :
        /\ worker[r].pc = "receipt" /\ worker[r].i = 2
        /\ Awaiting(r) = {2} /\ txs[1].run = r /\ txs[1].status = "mined_ok"

\* a text that is neither empty nor "auto" and that float() rejects
Unparsable(text) ==
    /\ strip(text) # <<>>
    /\ lower(strip(text)) # <<"a", "u", "t", "o">>
    /\ ~ParseFloat(strip(text)).ok

\* C10: for an unparsable manual gas price the resolution ends after
\* exactly one fallback and returns what automatic resolution returns for
\* the node's price.
C10_OneFallback ==
    (gas.status = "called" /\ Unparsable(gas.entry_text) /\ gas.node_price # NodeFailed)
    => /\ gas.result.status = "ok"
       /\ gas.result.fallbacks = 1
       /\ gas.result.value = AutoGasPrice(gas.node_price)

\* ----------------------------------------------------- gas claims, II
AutoMode(text) == strip(text) = <<>> \/ lower(strip(text)) = <<"a", "u", "t", "o">>

\* the node's price with the 10% buffer, in exact integer arithmetic
Buffered(node_price) == (11 * node_price) \div 10

\* C11: in automatic mode (the entry empty or "auto" in any case, blanks
\* around it ignored) with a node that answers, the resolved gas price is
\* max(floor(node_price * 1.1), minimum): the buffered price is at least the
\* node's price, and a buffered price below the minimum resolves to the
\* minimum.
C11_AutoGasPrice ==
    (gas.status = "called" /\ AutoMode(gas.entry_text) /\ gas.node_price # NodeFailed) =>
        LET buffered == Buffered(gas.node_price)
            minimum  == min_gas_price_gwei * WeiPerGwei
        IN  /\ gas.result.status = "ok"
            /\ gas.result.fallbacks = 0
            /\ buffered >= gas.node_price
            /\ gas.result.value = IF buffered < minimum THEN minimum ELSE buffered
            /\ gas.result.value >= minimum

\* an automatic price below the minimum was resolved to the minimum
C11_Witness ==
    /\ gas.status = "called" /\ gas.entry_text = <<" ", "A", "U", "T", "O", " ">>
    /\ gas.node_price = 5
    /\ gas.result.value = min_gas_price_gwei * WeiPerGwei

\* the limit the transaction of a file carries, in exact integer arithmetic
ExpectedGasLimit(estimate) ==
    IF estimate = EstimateFailed THEN default_gas_limit
    ELSE IF (6 * estimate) \div 5 > max_gas_limit THEN max_gas_limit
    ELSE (6 * estimate) \div 5

\* C12: the gas limit of a file's transaction is min(floor(estimate * 1.2),
\* max_gas_limit) when estimate_gas answered and default_gas_limit when it
\* raised; a failed estimate fails no file, the file goes on to be signed
\* and sent with the default limit, and the limits of the other files of the
\* batch are their own estimates with the buffer.
C12_GasLimit ==
    /\ \A k \in 1..Len(txs) : txs[k].gas = ExpectedGasLimit(txs[k].estimate)
    /\ \A r \in Runs :
          /\ worker[r].pc \in {"send", "receipt"} =>
                worker[r].tx.gas = ExpectedGasLimit(worker[r].tx.estimate)
          /\ \A k \in 1..Len(worker[r].log) : worker[r].log[k].cause # "estimate"

\* a batch of three whose second estimate failed: all three were sent, the
\* second with the default limit, the first with its buffered estimate and
\* the third with the cap
C12_Witness ==
    /\ Len(txs) = 3
    /\ \A k \in 1..3 : txs[k].index = k /\ txs[k].file_id = BatchFiles[k]
    /\ txs[1].estimate = 46 /\ txs[1].gas = 55
    /\ txs[2].estimate = EstimateFailed /\ txs[2].gas = default_gas_limit
    /\ txs[3].estimate = 200 /\ txs[3].gas = max_gas_limit

\* ------------------------------------------------------ registry claims
Fields(record) == DOMAIN record

\* the records an action has created or replaced
Touched == {file_id \in DOMAIN file_registry' :
               file_id \notin DOMAIN file_registry
               \/ file_registry'[file_id] # file_registry[file_id]}

\* a step of upload_file_thread
Uploads == file_registry' # file_registry /\ UNCHANGED runVars /\ DOMAIN file_registry \subseteq DOMAIN file_registry'

\* C13: from an empty registry, through uploads, pin-status updates and
\* deletions in any order, every record whose blockchain_pinned is true has
\* pin_tx set (to the hash of a transaction that was sent), and a record an
\* upload creates has blockchain_pinned false.
C13_PinnedHasTx ==
    /\ [](\A file_id \in DOMAIN file_registry :
             file_registry[file_id].blockchain_pinned =>
                 /\ "pin_tx" \in Fields(file_registry[file_id])
                 /\ file_registry[file_id].pin_tx \in 1..Len(txs))
    /\ [][Uploads => \A file_id \in Touched : ~file_registry'[file_id].blockchain_pinned]_vars

\* a pinned record beside a record that an upload created afterwards
C13_Witness ==
    \E a, b \in DOMAIN file_registry :
        /\ file_registry[a].blockchain_pinned /\ file_registry[a].pin_tx = 1
        /\ ~file_registry[b].blockchain_pinned
        /\ registry_file = FullFile(file_registry)

\* C14: creating a record under a file_id that the registry already holds
\* fails and leaves the record that is there, pin fields included, as it
\* was: no step of an upload changes a record that exists.
C14_DuplicateIdRejected ==
    [][Uploads => \A file_id \in DOMAIN file_registry :
                      file_registry'[file_id] = file_registry[file_id]]_vars

\* the write-back of run r for a mined transaction
WriteBack(r) ==
    /\ worker[r].pc = "receipt"
    /\ txs[worker[r].tx.hash].status = "pending"
    /\ txs'[worker[r].tx.hash].status = "mined_ok"

\* the last line the thread of run r has logged after the step
LastLogged(r) == worker'[r].log[Len(worker'[r].log)]

\* C15: a pin-status update for a file_id that the registry does not hold (a
\* record deleted while its transaction was in flight) leaves the registry
\* unchanged and fails with NotFound, which the caller, the loop body of the
\* pin thread, gets to see.
C15_NotFoundReported ==
    [][\A r \in Runs :
          (WriteBack(r) /\ worker[r].tx.file_id \notin DOMAIN file_registry) =>
              /\ UNCHANGED registryVars
              /\ Len(worker'[r].log) = Len(worker[r].log) + 1
              /\ LastLogged(r).result = "Failed"
              /\ LastLogged(r).cause = "NotFound"]_vars

\* the keys of the pin_info the pin thread passes
PinKeys == {"blockchain_pinned", "pin_tx", "pin_duration_days", "pin_network"}

\* C16: a pin-status update of a record that exists sets the keys of pin_info
\* and nothing else: every other field of the record keeps its value, no
\* field is lost, and every other record and the set of records stay as they
\* were.
C16_UpdateAdditive ==
    [][\A r \in Runs :
          (WriteBack(r) /\ worker[r].tx.file_id \in DOMAIN file_registry) =>
              LET file_id == worker[r].tx.file_id
                  old     == file_registry[file_id]
                  new     == file_registry'[file_id]
              IN  /\ DOMAIN file_registry' = DOMAIN file_registry
                  /\ \A other \in DOMAIN file_registry \ {file_id} :
                        file_registry'[other] = file_registry[other]
                  /\ Fields(new) = Fields(old) \cup PinKeys
                  /\ \A field \in Fields(old) \ PinKeys : new[field] = old[field]
                  /\ new.blockchain_pinned /\ new.pin_tx = worker[r].tx.hash
                  /\ new.pin_duration_days = duration_var
                  /\ new.pin_network = network_var]_vars

\* a record that was updated beside one that was not
C16_Witness ==
    \E file_id \in DOMAIN file_registry, other \in DOMAIN file_registry :
        /\ other # file_id
        /\ file_registry[file_id].blockchain_pinned
        /\ file_registry[file_id].pin_duration_days = 90
        /\ file_registry[file_id].file_cid = file_id
        /\ file_registry[file_id].original_size = FileSize[file_id]
        /\ file_registry[other] = UploadRecord(other)

\* C17: delete_file given the id of no record fails with NotFound (and,
\* given the id of a record, removes that record and no other, a pinned one
\* only when the user agrees, without a call to the content store).
C17_DeleteAbsentFails == delete_op.absent => delete_op.error = "NotFound"

\* C18: the registry file is rewritten in full and atomically after every
\* change of the registry: at no moment does it hold an empty or a broken
\* text that a reader, or the next start of the program, would find.
C18_AtomicRewrite == registry_file.state \in {"missing", "full"}

\* C19: changes of the registry by the upload thread, the pin thread and
\* the foreground thread are made and saved one at a time, so that no change
\* is lost: when no thread is in a change or a save, the file holds the
\* registry that is in memory.
C19_SingleWriter ==
    (\A t \in Threads : Idle(t)) => load_registry(registry_file) = file_registry

\* the runs whose thread has started and has not logged its summary
Active == {r \in Runs : worker[r].pc \in {"start", "prepare", "send", "receipt", "refresh"}}

\* C20: at most one pin thread is active, and from the start of a run to
\* its summary the pin button stays disabled, whatever the user does with
\* the connection, the wallet and the contract meanwhile.
C20_OneWorker ==
    /\ Cardinality(Active) <= 1
    /\ Active # {} => pin_btn = "disabled"

\* ------------------------------------------------------- outcome claims
\* the lines of run r's log with a result for the file at position k
Lines(r, k, result) ==
    {n \in 1..Len(worker[r].log) :
        /\ worker[r].log[n].file_id = worker[r].files[k].file_id
        /\ worker[r].log[n].result = result}

\* the transactions run r broadcast for the file at position k that have a status
Receipts(r, k, status) ==
    {t \in 1..Len(txs) : txs[t].run = r /\ txs[t].index = k /\ txs[t].status = status}

\* the positions of the files whose steps have ended
Processed(r) ==
    IF Summarized(r) THEN 1..Len(worker[r].files)
    ELSE IF InLoop(r) THEN 1..(worker[r].i - 1)
    ELSE {}

\* C21: a file is recorded as Success, with the gas used that its receipt
\* reports, exactly when its transaction was broadcast and a receipt with
\* status 1 arrived; a file whose steps ended otherwise (failure status,
\* time-out of the wait, any exception) is recorded as Failed; and a record
\* is pinned only by the write-back of a Success, with pin_tx the hash of
\* that file's mined transaction.
C21_Outcomes ==
    /\ \A r \in Runs : \A k \in 1..Len(worker[r].files) :
           /\ Lines(r, k, "Success") # {} <=> Receipts(r, k, "mined_ok") # {}
           /\ \A n \in Lines(r, k, "Success"), t \in Receipts(r, k, "mined_ok") :
                  worker[r].log[n].gas_used = txs[t].gas_used
           /\ (k \in Processed(r) /\ Receipts(r, k, "mined_ok") = {})
                  => Lines(r, k, "Failed") # {}
    /\ \A file_id \in DOMAIN file_registry :
           file_registry[file_id].blockchain_pinned =>
               LET t == file_registry[file_id].pin_tx IN
               /\ t \in 1..Len(txs)
               /\ txs[t].file_id = file_id
               /\ txs[t].status = "mined_ok"
               /\ Lines(txs[t].run, txs[t].index, "Success") # {}

\* a batch of three: a success, a failure status and a time-out
C21_Witness ==
    /\ Summarized(1) /\ Len(worker[1].log) = 3
    /\ worker[1].log[1].result = "Success" /\ worker[1].log[1].gas_used = 30
    /\ worker[1].log[2].result = "Failed" /\ worker[1].log[2].cause = "status"
    /\ worker[1].log[3].result = "Failed" /\ worker[1].log[3].cause = "timeout"
    /\ file_registry["f1"].blockchain_pinned /\ file_registry["f1"].pin_tx = 1
    /\ ~file_registry["f2"].blockchain_pinned /\ ~file_registry["f3"].blockchain_pinned

\* a step in which run r takes up the steps of a file
TakesUp(r) == worker'[r].pc = "prepare" /\ worker'[r] # worker[r]

\* the transactions run r has broadcast for the file at position k
Broadcast(r, k) == {t \in 1..Len(txs) : txs[t].run = r /\ txs[t].index = k}

\* Within a run each file is taken up once, in the order of the list, and
\* broadcast at most once; no transaction is sent for a file the run has
\* recorded; and a transaction whose gas estimate failed carries the default
\* gas limit, the one substitution after which the steps of a file go on.
AtMostOnce ==
    /\ [][\A r \in Runs :
             TakesUp(r) => /\ worker'[r].i = worker[r].i + 1
                           /\ Broadcast(r, worker'[r].i) = {}
                           /\ Lines(r, worker'[r].i, "Failed") = {}
                           /\ Lines(r, worker'[r].i, "Success") = {}]_vars
    /\ [][Len(txs') > Len(txs) =>
             LET tx == txs'[Len(txs')] IN
             /\ Broadcast(tx.run, tx.index) = {}
             /\ Lines(tx.run, tx.index, "Failed") = {}]_vars
    /\ [](\A t \in 1..Len(txs) :
             /\ Cardinality(Broadcast(txs[t].run, txs[t].index)) = 1
             /\ txs[t].fallbacks = 0
             /\ txs[t].estimate = EstimateFailed => txs[t].gas = default_gas_limit)

C23_AlwaysSummarized ==
    \A r \in Runs :
        (worker[r].pc = "start") ~> (worker[r].pc = "done" /\ pin_btn = "normal")

\* C23, amended: every started run ends and returns to Idle with the pin
\* button enabled, whatever the outcomes of its files: through its summary
\* and on_pinning_complete, or, when the run itself raises an unexpected
\* error, through on_pinning_error, without a summary.
C23_AlwaysEnds ==
    \A r \in Runs :
        (worker[r].pc = "start")
            ~> (worker[r].pc \in {"done", "error_shown"} /\ pin_btn = "normal")

\* a run that an unexpected error ended after its first file, back in Idle
C23_Witness ==
    /\ worker[1].pc = "error_shown" /\ pin_btn = "normal"
    /\ Len(worker[1].log) = 1 /\ worker[1].i = 2 /\ Len(txs) = 1

\* ---------------------------------------------------- gas claims, III
\* the call was given a manual price that float() accepts
ManualMode == gas.status = "called" /\ ~AutoMode(gas.entry_text) /\ ParseFloat(strip(gas.entry_text)).ok

UploadCalls == <<"encrypt_file", "store_encrypted_file", "save_registry">>

\* C25: encrypt_file fails, and returns no result, for a file that does not
\* exist or is empty; an upload whose encryption or store fails runs no
\* later step and leaves the registry and its file as they were; an entry
\* is created only after the ciphertext and the metadata were both stored.
C25_UploadStopsOnFailure ==
    /\ upload.pc # "idle" =>
           /\ enc.result.ok <=> (upload.exists /\ upload.file_data # <<>>)
           /\ ~enc.result.ok => DOMAIN enc.result = {"ok"}
           /\ upload.calls = SubSeq(UploadCalls, 1, Len(upload.calls))
           /\ Len(upload.calls) > 1 => enc.result.ok
           /\ Len(upload.calls) > 2 =>
                  {Cid("encrypted_file", enc.result), Cid("metadata.json", enc.result)}
                      \subseteq ipfs
           /\ upload.pc = "failed" =>
                  /\ Len(upload.calls) < 3
                  /\ file_registry = upload.before
                  /\ load_registry(registry_file) = upload.before
           /\ upload.pc \in {"store", "entry"} => file_registry = upload.before
    /\ \A file_id \in DOMAIN file_registry :
           /\ file_registry[file_id].file_cid \in ipfs
           /\ file_registry[file_id].metadata_cid \in ipfs
           /\ ~file_registry[file_id].blockchain_pinned

\* after one upload that went well, a second whose metadata was refused:
\* its ciphertext is stored, the registry holds the first entry only
C25_Witness ==
    /\ upload.count = 2 /\ upload.pc = "failed"
    /\ upload.calls = <<"encrypt_file", "store_encrypted_file">>
    /\ Cid("encrypted_file", enc.result) \in ipfs
    /\ Cid("metadata.json", enc.result) \notin ipfs
    /\ Cardinality(DOMAIN file_registry) = 1
    /\ FileId(enc.result.original_hash) \notin DOMAIN file_registry

\* --------------------------------------------------------- run claims
\* C26: within a run no two transactions that were broadcast carry the same
\* nonce, and the nonce fetched for a file is greater than the nonce of
\* every transaction the run has broadcast before, also when the wait for
\* an earlier receipt timed out and that transaction is still pending.
C26_FreshNonce ==
    \A r \in Runs :
        /\ \A a, b \in 1..Len(txs) :
               (a < b /\ txs[a].run = r /\ txs[b].run = r) => txs[a].nonce < txs[b].nonce
        /\ worker[r].pc = "send" =>
               \A t \in 1..Len(txs) : txs[t].run = r => txs[t].nonce < worker[r].tx.nonce

\* C27: every file of a batch adds one to exactly one of the two counters:
\* while the loop runs the counters add up to the number of files whose
\* steps have ended, and at the summary to the number of files of the
\* batch, also when the write-back of a confirmed file raises or finds its
\* record deleted.
C27_OneCounterPerFile ==
    \A r \in Runs :
        /\ Summarized(r) => worker[r].successful + worker[r].failed = Len(worker[r].files)
        /\ worker[r].pc \in {"prepare", "send", "receipt"} =>
               worker[r].successful + worker[r].failed = worker[r].i - 1

\* the record of a file is marked as pinned
Pinned(file_id) == file_id \in DOMAIN file_registry /\ file_registry[file_id].blockchain_pinned

\* C28: no pin transaction is broadcast for a file whose record is already
\* pinned: a run that starts after an earlier run has pinned a file does
\* not send, and pay for, that file again.
C28_NoSecondPin ==
    [][Len(txs') > Len(txs) => ~Pinned(txs'[Len(txs')].file_id)]_vars

\* C29: every transaction of a run is built for a file of the list, and for
\* the duration, that the user confirmed for that run, and the
\* pin_duration_days and pin_network a run writes back are the duration and
\* the network it was confirmed with, whatever is selected or entered while
\* the run is in progress.
C29_ConfirmedParameters ==
    /\ \A t \in 1..Len(txs) :
           LET asked == worker[txs[t].run].asked IN
           /\ txs[t].duration = asked.duration
           /\ txs[t].index \in 1..Len(asked.files)
           /\ asked.files[txs[t].index].file_id = txs[t].file_id
    /\ \A file_id \in DOMAIN file_registry :
           Pinned(file_id) =>
               LET asked == worker[txs[file_registry[file_id].pin_tx].run].asked IN
               /\ file_registry[file_id].pin_duration_days = asked.duration
               /\ file_registry[file_id].pin_network = asked.network

\* the button is enabled with a connected node, a wallet and a contract
EnabledWithAll == pin_btn = "normal" => w3 = "connected" /\ account = "set" /\ contract = "set"

\* a handler that fails leaves its component as it was
FailureKeeps ==
    /\ (\E outcome \in {"no_url", "unreachable"} : connect_blockchain(outcome)) => w3' = w3
    /\ (\E outcome \in {"bad_key", "balance_fails"} : import_private_key(outcome))
           => account' = account
    /\ (\E outcome \in {"bad_address", "call_fails"} : load_contract(outcome))
           => contract' = contract

\* C30: the pin button is enabled only while the panel has a connected node,
\* a wallet and a contract, and a connect, a key import or a contract load
\* that fails leaves w3, the account or the contract as it was.
C30_EstablishedComponents == [](EnabledWithAll) /\ [][FailureKeeps]_vars

====
